---- MODULE Spec2Model ----
(***************************************************************************)
(* The permission engine of laravel-react-permissions: the usePermissions  *)
(* hook (src/hooks/use-permissions.tsx).  Strings are sequences of one     *)
(* character strings, so that every regular-expression replacement, match  *)
(* and the evaluation of the generated JavaScript text is computed the way *)
(* the code computes it.                                                   *)
(***************************************************************************)
EXTENDS Integers, Sequences, FiniteSets, TLC

VARIABLES
    permissionsArg,   \* the permissions argument of usePermissions
    auth,             \* usePage().props.auth
    userPermissions,  \* the granted list the hook closes over
    pc,               \* "idle" between calls, "returned" after a call
    op,               \* the operation that was called last
    arg,              \* its argument (a string)
    result,           \* what it returned (or that it threw)
    fnText,           \* the texts handed to Function(...) by that call
    warned            \* the expressions passed to console.warn by that call

vars ==
    <<permissionsArg, auth, userPermissions, pc, op, arg, result, fnText, warned>>

(***************************************************************************)
(* Characters.                                                             *)
(***************************************************************************)
Letters ==
    {"a", "b", "c", "d", "e", "f", "g", "h", "i", "j", "k", "l", "m", "n",
     "o", "p", "q", "r", "s", "t", "u", "v", "w", "x", "y", "z",
     "A", "B", "C", "X", "Y", "Z"}

Digits == {"0", "1", "2", "3", "4", "5", "6", "7", "8", "9"}

\* String.prototype.trim strips white space and line terminators
WhiteSpace == {" ", "\t", "\n", "\r"}

\* the characters a regular expression's "." does not match
LineTerminators == {"\n", "\r"}

\* \w of a JavaScript regular expression
IsWordChar(c) == c \in Letters \cup Digits \cup {"_"}

\* [a-zA-Z_]
IsIdStart(c) == c \in Letters \cup {"_"}

\* [a-zA-Z0-9_.*?]
IsIdChar(c) == c \in Letters \cup Digits \cup {"_", ".", "*", "?"}

(***************************************************************************)
(* Values a call can produce.  A JavaScript value is a record: a boolean   *)
(* (v = 1 for true), a number, undefined or NaN; "throw" is an exception   *)
(* that leaves the call.                                                   *)
(***************************************************************************)
Bool(b) == [t |-> "bool", v |-> IF b THEN 1 ELSE 0]
JsTrue == Bool(TRUE)
JsFalse == Bool(FALSE)
JsNum(n) == [t |-> "num", v |-> n]
JsUndefined == [t |-> "undef", v |-> 0]
JsNaN == [t |-> "nan", v |-> 0]
Thrown == [t |-> "throw", v |-> 0]

(***************************************************************************)
(* String helpers.                                                         *)
(***************************************************************************)
\* a const binding: v is computed once and named in F
Let(v, F(_)) == F(v)

Tail2(s, i) == SubSeq(s, i, Len(s))

RECURSIVE TrimStart(_)
TrimStart(s) ==
    IF s # <<>> /\ Head(s) \in WhiteSpace THEN TrimStart(Tail(s)) ELSE s

RECURSIVE TrimEnd(_)
TrimEnd(s) ==
    IF s # <<>> /\ s[Len(s)] \in WhiteSpace
    THEN TrimEnd(SubSeq(s, 1, Len(s) - 1))
    ELSE s

\* String.prototype.trim
Trim(s) == TrimEnd(TrimStart(s))

\* String.prototype.includes for a one character needle
Includes(s, c) == \E i \in 1..Len(s) : s[i] = c

\* s has the text w at index i
HasAt(s, i, w) ==
    /\ i + Len(w) - 1 <= Len(s)
    /\ \A k \in 1..Len(w) : s[i + k - 1] = w[k]

\* Array.prototype.includes on the granted list
ListIncludes(list, s) == \E i \in 1..Len(list) : list[i] = s

TrueText == <<"t", "r", "u", "e">>
FalseText == <<"f", "a", "l", "s", "e">>

\* Boolean.prototype.toString
BoolText(b) == IF b THEN TrueText ELSE FalseText

(***************************************************************************)
(* String.prototype.replace(/c/g, w): every occurrence of the character c  *)
(* becomes the text w.                                                     *)
(***************************************************************************)
RECURSIVE ReplaceChar(_, _, _)
ReplaceChar(s, c, w) ==
    IF s = <<>> THEN <<>>
    ELSE (IF Head(s) = c THEN w ELSE <<Head(s)>>) \o ReplaceChar(Tail(s), c, w)

\* the source without the closing anchor: a granted string need only begin
\* with a match of the pattern
regexPatternOpenEnded(pattern) ==
    <<"^">>
    \o ReplaceChar(ReplaceChar(ReplaceChar(pattern, ".", <<"\\", ".">>),
                               "*", <<".", "*">>),
                   "?", <<".">>)

(***************************************************************************)
(* The regular expression text built from a pattern: dots escaped, then *  *)
(* to .*, then ? to ., then anchored (use-permissions.tsx 72-78, 213-218). *)
(***************************************************************************)
regexPattern(pattern) ==
    <<"^">>
    \o ReplaceChar(ReplaceChar(ReplaceChar(pattern, ".", <<"\\", ".">>),
                               "*", <<".", "*">>),
                   "?", <<".">>)
    \o <<"$">>

(***************************************************************************)
(* new RegExp(source) and RegExp.prototype.test, for the sources that      *)
(* regexPattern builds over RegExpAlphabet: an escaped character and any   *)
(* character outside RegExpMeta match themselves, "." matches one          *)
(* character that is no line terminator, "*" repeats the atom before it,   *)
(* "^" and "$" assert the start and the end of the input, and "(" ")" form *)
(* a capturing group (without a quantifier: the text it encloses).         *)
(***************************************************************************)
RegExpMeta == {"^", "$", "\\", ".", "*", "+", "?", "(", ")", "[", "]", "{", "}", "|"}

\* the pattern characters whose regular-expression meaning is modelled
RegExpAlphabet ==
    Letters \cup Digits
    \cup {"_", ".", "*", "?", "-", " ", "!", "(", ")", "&", "^", "$"}

RegExpModelled(pattern) == \A i \in 1..Len(pattern) : pattern[i] \in RegExpAlphabet

\* parentheses nest properly: otherwise the constructor throws a SyntaxError
RECURSIVE GroupsBalanced(_, _, _)
GroupsBalanced(src, i, depth) ==
    IF i > Len(src) THEN depth = 0
    ELSE IF src[i] = "\\" THEN GroupsBalanced(src, i + 2, depth)
    ELSE IF src[i] = "(" THEN GroupsBalanced(src, i + 1, depth + 1)
    ELSE IF src[i] = ")" THEN depth > 0 /\ GroupsBalanced(src, i + 1, depth - 1)
    ELSE GroupsBalanced(src, i + 1, depth)

\* a "*" has an atom to repeat (not the start, "^", "$", "(" or another "*")
RECURSIVE QuantifiersPlaced(_, _, _)
QuantifiersPlaced(src, i, afterAtom) ==
    IF i > Len(src) THEN TRUE
    ELSE IF src[i] = "\\" THEN QuantifiersPlaced(src, i + 2, TRUE)
    ELSE IF src[i] = "*" THEN afterAtom /\ QuantifiersPlaced(src, i + 1, FALSE)
    ELSE QuantifiersPlaced(src, i + 1, src[i] \notin {"^", "$", "("})

\* new RegExp(src) does not throw
RegExpCompiles(src) == GroupsBalanced(src, 1, 0) /\ QuantifiersPlaced(src, 1, FALSE)

\* the atom at index i of the source: its length, and the characters it
\* matches
AtomLen(src, i) == IF src[i] = "\\" THEN 2 ELSE 1

AtomFits(src, i, ch) ==
    IF src[i] = "\\" THEN ch = src[i + 1]
    ELSE IF src[i] = "." THEN ch \notin LineTerminators
    ELSE ch = src[i]

RECURSIVE RegExpMatch(_, _, _, _)
RegExpMatch(src, i, str, j) ==
    IF i > Len(src) THEN TRUE
    ELSE IF src[i] = "^" THEN j = 1 /\ RegExpMatch(src, i + 1, str, j)
    ELSE IF src[i] = "$" THEN j = Len(str) + 1 /\ RegExpMatch(src, i + 1, str, j)
    ELSE IF src[i] \in {"(", ")"} THEN RegExpMatch(src, i + 1, str, j)
    ELSE
        IF i + AtomLen(src, i) <= Len(src) /\ src[i + AtomLen(src, i)] = "*"
        THEN \E k \in 0..(Len(str) - j + 1) :
                /\ \A m \in 0..(k - 1) : AtomFits(src, i, str[j + m])
                /\ RegExpMatch(src, i + AtomLen(src, i) + 1, str, j + k)
        ELSE /\ j <= Len(str)
             /\ AtomFits(src, i, str[j])
             /\ RegExpMatch(src, i + AtomLen(src, i), str, j + 1)

\* regex.test(str): a match starting anywhere
RegExpTest(src, str) == \E j \in 1..(Len(str) + 1) : RegExpMatch(src, 1, str, j)

(***************************************************************************)
(* The operator normalisation shared by evaluatePermissionExpression and   *)
(* isValidExpression (use-permissions.tsx 100-107, 238-245).               *)
(***************************************************************************)
\* .replace(/c(?!c)/g, 'cc'): a c that is not followed by a c is doubled
RECURSIVE DoubleLone(_, _, _)
DoubleLone(s, c, i) ==
    IF i > Len(s) THEN <<>>
    ELSE IF s[i] = c /\ (i = Len(s) \/ s[i + 1] # c)
         THEN <<c, c>> \o DoubleLone(s, c, i + 1)
         ELSE <<s[i]>> \o DoubleLone(s, c, i + 1)

\* the index after the run of c that starts at i
RECURSIVE RunOf(_, _, _)
RunOf(s, c, i) == IF i <= Len(s) /\ s[i] = c THEN RunOf(s, c, i + 1) ELSE i

\* a replacement that turns every run of three or more c into two
RECURSIVE CollapseWholeRun(_, _, _)
CollapseWholeRun(s, c, i) ==
    IF i > Len(s) THEN <<>>
    ELSE IF i + 2 <= Len(s) /\ s[i] = c /\ s[i + 1] = c /\ s[i + 2] = c
         THEN <<c, c>> \o CollapseWholeRun(s, c, RunOf(s, c, i))
         ELSE <<s[i]>> \o CollapseWholeRun(s, c, i + 1)

\* .replace(/ccc/g, 'cc'): left to right, every three c become two
RECURSIVE CollapseTriple(_, _, _)
CollapseTriple(s, c, i) ==
    IF i > Len(s) THEN <<>>
    ELSE IF i + 2 <= Len(s) /\ s[i] = c /\ s[i + 1] = c /\ s[i + 2] = c
         THEN <<c, c>> \o CollapseTriple(s, c, i + 3)
         ELSE <<s[i]>> \o CollapseTriple(s, c, i + 1)

jsExpression(expression) ==
    CollapseTriple(
        CollapseTriple(DoubleLone(DoubleLone(expression, "|", 1), "&", 1), "|", 1),
        "&", 1)

(***************************************************************************)
(* permissionRegex (use-permissions.tsx 118-119): one of five alternatives *)
(* followed by a negative look-ahead for | or &.  The alternatives, in     *)
(* order: a star; a question mark; an identifier (a letter or underscore,  *)
(* then any run of letters, digits, underscore, dot, star, question mark); *)
(* the word true; the word false.                                          *)
(* The third alternative is greedy and backtracks: it takes the whole run  *)
(* of [a-zA-Z0-9_.*?] after the first character, and when that run is      *)
(* followed by | or & it gives the last character back (the look-ahead     *)
(* then sees that character), or fails when the run is one character.      *)
(***************************************************************************)
\* the index after the run of characters satisfying the class from i on
RECURSIVE RunEnd(_, _, _)
RunEnd(s, i, word) ==
    IF i <= Len(s) /\ (IF word THEN IsWordChar(s[i]) ELSE IsIdChar(s[i]))
    THEN RunEnd(s, i + 1, word)
    ELSE i

\* (?![|&]) at index i
NoOperatorAt(s, i) == i > Len(s) \/ s[i] \notin {"|", "&"}

\* the length of the identifier alternative's match at i, 0 when it fails
IdentMatchLen(s, i) ==
    IF ~IsIdStart(s[i]) THEN 0
    ELSE Let(RunEnd(s, i + 1, FALSE),
             LAMBDA e : IF NoOperatorAt(s, e) THEN e - i
                        ELSE IF e - i >= 2 THEN e - i - 1
                        ELSE 0)

\* the length of permissionRegex's match at i, 0 when there is none
PermissionMatchLen(s, i) ==
    IF s[i] \in {"*", "?"} /\ NoOperatorAt(s, i + 1) THEN 1
    ELSE IF IdentMatchLen(s, i) > 0 THEN IdentMatchLen(s, i)
    ELSE IF HasAt(s, i, TrueText) /\ NoOperatorAt(s, i + 4) THEN 4
    ELSE IF HasAt(s, i, FalseText) /\ NoOperatorAt(s, i + 5) THEN 5
    ELSE 0

\* jsExpression.match(permissionRegex) || []
RECURSIVE MatchPermissions(_, _)
MatchPermissions(s, i) ==
    IF i > Len(s) THEN <<>>
    ELSE Let(PermissionMatchLen(s, i),
             LAMBDA n : IF n = 0 THEN MatchPermissions(s, i + 1)
                        ELSE <<SubSeq(s, i, i + n - 1)>>
                             \o MatchPermissions(s, i + n))

permissions(jsExpr) == MatchPermissions(jsExpr, 1)

(***************************************************************************)
(* The two replacements of the loop (use-permissions.tsx 133-154).         *)
(***************************************************************************)
\* \b between index i - 1 and index i
WordBoundary(s, i) ==
    (i > 1 /\ IsWordChar(s[i - 1])) # (i <= Len(s) /\ IsWordChar(s[i]))

\* .replace(new RegExp(`\\b${escapedPermission}\\b`, 'g'), text): the
\* permission is escaped, so it is matched literally
RECURSIVE ReplaceWord(_, _, _, _)
ReplaceWord(s, i, permission, text) ==
    IF i > Len(s) THEN <<>>
    ELSE IF /\ HasAt(s, i, permission)
            /\ WordBoundary(s, i)
            /\ WordBoundary(s, i + Len(permission))
         THEN text \o ReplaceWord(s, i + Len(permission), permission, text)
         ELSE <<s[i]>> \o ReplaceWord(s, i + 1, permission, text)

\* .replace(new RegExp(`\\${permission}(?![a-zA-Z0-9_.])`, 'g'), text)
RECURSIVE ReplaceWildcard(_, _, _, _)
ReplaceWildcard(s, i, wildcard, text) ==
    IF i > Len(s) THEN <<>>
    ELSE IF /\ s[i] = wildcard
            /\ (i = Len(s) \/ ~(IsWordChar(s[i + 1]) \/ s[i + 1] = "."))
         THEN text \o ReplaceWildcard(s, i + 1, wildcard, text)
         ELSE <<s[i]>> \o ReplaceWildcard(s, i + 1, wildcard, text)

\* isValidExpression's replacement of every identifier match by 'true'
\* (use-permissions.tsx 248-251)
RECURSIVE ReplaceIdentifiers(_, _)
ReplaceIdentifiers(s, i) ==
    IF i > Len(s) THEN <<>>
    ELSE Let(IdentMatchLen(s, i),
             LAMBDA n : IF n = 0 THEN <<s[i]>> \o ReplaceIdentifiers(s, i + 1)
                        ELSE TrueText \o ReplaceIdentifiers(s, i + n))

(***************************************************************************)
(* Function(`"use strict"; return (${text})`) and the call of the function *)
(* it builds (use-permissions.tsx 159, 253): JavaScript's lexical grammar, *)
(* expression grammar and evaluation for the characters of JsAlphabet.     *)
(* No identifier of a text is bound in the global scope and no property    *)
(* name is a member of Boolean.prototype or Number.prototype, so reading   *)
(* an identifier throws a ReferenceError and reading a property of a       *)
(* boolean or a number gives undefined.                                    *)
(***************************************************************************)
JsAlphabet ==
    Letters \cup {"_", ".", "-", "*", "?", "|", "&", "(", ")", "!", " ", "\t"}

\* outside the modelled part of JavaScript
Unmodelled == [t |-> "unmodelled", v |-> 0]

Tok(k) == [k |-> k, n |-> <<>>]
IdTok(name) == [k |-> "id", n |-> name]

\* the character at index i, "" past the end
CharAt(s, i) == IF i <= Len(s) THEN s[i] ELSE ""

\* the punctuator that starts at index i (the longest one)
Punctuator(s, i) ==
    CASE s[i] = "|" -> IF CharAt(s, i + 1) = "|" THEN "||" ELSE "|"
      [] s[i] = "&" -> IF CharAt(s, i + 1) = "&" THEN "&&" ELSE "&"
      [] s[i] = "*" -> IF CharAt(s, i + 1) = "*" THEN "**" ELSE "*"
      [] s[i] = "-" -> IF CharAt(s, i + 1) = "-" THEN "--" ELSE "-"
      [] s[i] = "?" -> IF CharAt(s, i + 1) = "?" THEN "??"
                       ELSE IF CharAt(s, i + 1) = "."
                               /\ CharAt(s, i + 2) \notin Digits THEN "?."
                       ELSE "?"
      [] s[i] = "." -> IF CharAt(s, i + 1) = "." /\ CharAt(s, i + 2) = "."
                       THEN "..." ELSE "."
      [] OTHER -> s[i]

PunctuatorLen(k) ==
    IF k \in {"||", "&&", "**", "--", "??", "?."} THEN 2
    ELSE IF k = "..." THEN 3
    ELSE 1

RECURSIVE JsTokens(_, _)
JsTokens(s, i) ==
    IF i > Len(s) THEN <<>>
    ELSE IF s[i] \in {" ", "\t"} THEN JsTokens(s, i + 1)
    ELSE IF IsIdStart(s[i])
         THEN Let(RunEnd(s, i + 1, TRUE),
                  LAMBDA e : <<IdTok(SubSeq(s, i, e - 1))>> \o JsTokens(s, e))
         ELSE Let(Punctuator(s, i),
                  LAMBDA k : <<Tok(k)>> \o JsTokens(s, i + PunctuatorLen(k)))

\* reserved words and global names short enough to be spelled by an input
ReservedNames ==
    {<<"d", "o">>, <<"i", "f">>, <<"i", "n">>, <<"f", "o", "r">>,
     <<"l", "e", "t">>, <<"n", "e", "w">>, <<"t", "r", "y">>, <<"v", "a", "r">>,
     <<"c", "a", "s", "e">>, <<"e", "l", "s", "e">>, <<"e", "n", "u", "m">>,
     <<"e", "v", "a", "l">>, <<"n", "u", "l", "l">>, <<"t", "h", "i", "s">>,
     <<"v", "o", "i", "d">>, <<"w", "i", "t", "h">>, <<"n", "a", "m", "e">>,
     <<"s", "e", "l", "f">>, <<"t", "o", "p">>}

\* the text stays inside the modelled part of the language: its characters
\* are in JsAlphabet, it has no decrement and no reserved or global name
JsModelled(text) ==
    /\ \A i \in 1..Len(text) : text[i] \in JsAlphabet
    /\ Let(JsTokens(text, 1),
           LAMBDA toks :
              \A i \in 1..Len(toks) :
                 /\ toks[i].k # "--"
                 /\ ~(toks[i].k = "id" /\ toks[i].n \in ReservedNames))

\* Syntax trees.  Identifier and property names are not kept: by the
\* assumption above the evaluation does not depend on them.
Lit(v) == [t |-> "lit", v |-> v]
IdRef == [t |-> "id"]
Member(e) == [t |-> "member", e |-> e]
CallOf(e) == [t |-> "call", e |-> e]
Opt(e, ops) == [t |-> "opt", e |-> e, ops |-> ops]
Un(o, e) == [t |-> "un", o |-> o, e |-> e]
Bin(o, l, r) == [t |-> "bin", o |-> o, l |-> l, r |-> r]

\* A parse result: the tree, the index of the next token, and whether the
\* tree is free of an unparenthesised || or && (then ?? may follow it).
Ok(pos, ast, plain) == [ok |-> TRUE, pos |-> pos, ast |-> ast, plain |-> plain]
Fail == [ok |-> FALSE, pos |-> 0, ast |-> IdRef, plain |-> TRUE]

TokAt(toks, p) == IF p <= Len(toks) THEN toks[p].k ELSE "eof"

\* binary operators from the loosest (1) to the tightest (6) level
LevelOp(lv) ==
    CASE lv = 1 -> "||" [] lv = 2 -> "&&" [] lv = 3 -> "|"
      [] lv = 4 -> "&"  [] lv = 5 -> "-"  [] OTHER -> "*"

RECURSIVE ParseShort(_, _)
RECURSIVE CoalesceLoop(_, _)
RECURSIVE ParseBin(_, _, _)
RECURSIVE BinLoop(_, _, _)
RECURSIVE ParseExp(_, _)
RECURSIVE ParseUnary(_, _)
RECURSIVE ParseLHS(_, _)
RECURSIVE PostfixLoop(_, _)
RECURSIVE ChainLoop(_, _, _, _)
RECURSIVE ParseArgs(_, _)
RECURSIVE ParsePrimary(_, _)

\* ShortCircuitExpression: LogicalORExpression or CoalesceExpression
ParseShort(toks, p) ==
    Let(ParseBin(toks, p, 1),
        LAMBDA r : IF r.ok /\ TokAt(toks, r.pos) = "??"
                   THEN IF r.plain THEN CoalesceLoop(toks, r) ELSE Fail
                   ELSE r)

CoalesceLoop(toks, left) ==
    Let(ParseBin(toks, left.pos + 1, 3),
        LAMBDA r :
           IF ~r.ok THEN Fail
           ELSE IF TokAt(toks, r.pos) = "??"
                THEN CoalesceLoop(toks,
                                  Ok(r.pos, Bin("??", left.ast, r.ast), FALSE))
           ELSE Ok(r.pos, Bin("??", left.ast, r.ast), FALSE))

\* the left-associative binary levels
ParseBin(toks, p, lv) ==
    IF lv > 6 THEN ParseExp(toks, p)
    ELSE Let(ParseBin(toks, p, lv + 1),
             LAMBDA l : IF l.ok THEN BinLoop(toks, l, lv) ELSE Fail)

BinLoop(toks, left, lv) ==
    IF TokAt(toks, left.pos) = LevelOp(lv)
    THEN Let(ParseBin(toks, left.pos + 1, lv + 1),
             LAMBDA r :
                IF r.ok
                THEN BinLoop(toks,
                             Ok(r.pos, Bin(LevelOp(lv), left.ast, r.ast), lv > 2),
                             lv)
                ELSE Fail)
    ELSE left

\* after the base b of an exponentiation: ** and the exponent, or nothing
ExpRest(toks, b) ==
    IF b.ok /\ TokAt(toks, b.pos) = "**"
    THEN Let(ParseExp(toks, b.pos + 1),
             LAMBDA e : IF e.ok THEN Ok(e.pos, Bin("**", b.ast, e.ast), TRUE)
                        ELSE Fail)
    ELSE b

\* ExponentiationExpression: a unary expression cannot be the base of **
ParseExp(toks, p) ==
    IF TokAt(toks, p) \in {"-", "!"}
    THEN Let(ParseUnary(toks, p),
             LAMBDA u : IF u.ok /\ TokAt(toks, u.pos) = "**" THEN Fail ELSE u)
    ELSE ExpRest(toks, ParseLHS(toks, p))

ParseUnary(toks, p) ==
    IF TokAt(toks, p) \in {"-", "!"}
    THEN Let(ParseUnary(toks, p + 1),
             LAMBDA e : IF e.ok THEN Ok(e.pos, Un(TokAt(toks, p), e.ast), TRUE)
                        ELSE Fail)
    ELSE ParseLHS(toks, p)

\* LeftHandSideExpression: member accesses, calls and optional chains
ParseLHS(toks, p) ==
    Let(ParsePrimary(toks, p),
        LAMBDA pr : IF pr.ok THEN PostfixLoop(toks, pr) ELSE Fail)

PostfixLoop(toks, left) ==
    IF TokAt(toks, left.pos) = "." THEN
        IF TokAt(toks, left.pos + 1) = "id"
        THEN PostfixLoop(toks, Ok(left.pos + 2, Member(left.ast), TRUE))
        ELSE Fail
    ELSE IF TokAt(toks, left.pos) = "(" THEN
        Let(ParseArgs(toks, left.pos),
            LAMBDA a : IF a.ok
                       THEN PostfixLoop(toks, Ok(a.pos, CallOf(left.ast), TRUE))
                       ELSE Fail)
    ELSE IF TokAt(toks, left.pos) = "?." THEN
        IF TokAt(toks, left.pos + 1) = "id"
        THEN ChainLoop(toks, left.ast, <<"prop">>, left.pos + 2)
        ELSE IF TokAt(toks, left.pos + 1) = "("
        THEN Let(ParseArgs(toks, left.pos + 1),
                 LAMBDA a : IF a.ok
                            THEN ChainLoop(toks, left.ast, <<"call">>, a.pos)
                            ELSE Fail)
        ELSE Fail
    ELSE left

\* the rest of an optional chain, up to the next ?. or the end of the chain
ChainLoop(toks, base, ops, p) ==
    IF TokAt(toks, p) = "." THEN
        IF TokAt(toks, p + 1) = "id"
        THEN ChainLoop(toks, base, Append(ops, "prop"), p + 2)
        ELSE Fail
    ELSE IF TokAt(toks, p) = "(" THEN
        Let(ParseArgs(toks, p),
            LAMBDA a : IF a.ok
                       THEN ChainLoop(toks, base, Append(ops, "call"), a.pos)
                       ELSE Fail)
    ELSE PostfixLoop(toks, Ok(p, Opt(base, ops), TRUE))

\* an expression that a ")" closes: the result after the ")"
Closed(toks, e) ==
    IF e.ok /\ TokAt(toks, e.pos) = ")" THEN Ok(e.pos + 1, e.ast, TRUE)
    ELSE Fail

\* Arguments at the "(" of index p: empty, or one expression, possibly
\* spread (the alphabet has no comma)
ParseArgs(toks, p) ==
    IF TokAt(toks, p + 1) = ")" THEN Ok(p + 2, IdRef, TRUE)
    ELSE Closed(toks, ParseShort(toks, IF TokAt(toks, p + 1) = "..." THEN p + 2
                                       ELSE p + 1))

ParsePrimary(toks, p) ==
    IF TokAt(toks, p) = "id" THEN
        Ok(p + 1,
           IF toks[p].n = TrueText THEN Lit(JsTrue)
           ELSE IF toks[p].n = FalseText THEN Lit(JsFalse)
           ELSE IdRef,
           TRUE)
    ELSE IF TokAt(toks, p) = "(" THEN Closed(toks, ParseShort(toks, p + 1))
    ELSE Fail

(***************************************************************************)
(* Evaluation.                                                             *)
(***************************************************************************)
Abrupt(v) == v.t \in {"throw", "unmodelled"}

\* ToBoolean
Truthy(v) == (v.t = "bool" /\ v.v = 1) \/ (v.t = "num" /\ v.v # 0)

\* ToNumber gives NaN for undefined and NaN, v.v otherwise
NotANumber(v) == v.t \in {"undef", "nan"}

\* bitwise and (and = TRUE) or bitwise or of two integers, two's complement
RECURSIVE BitOp(_, _, _)
BitOp(a, b, and) ==
    IF a \in {0, -1} /\ b \in {0, -1}
    THEN IF and THEN (IF a = -1 /\ b = -1 THEN -1 ELSE 0)
         ELSE (IF a = -1 \/ b = -1 THEN -1 ELSE 0)
    ELSE (IF and THEN (IF a % 2 = 1 /\ b % 2 = 1 THEN 1 ELSE 0)
          ELSE (IF a % 2 = 1 \/ b % 2 = 1 THEN 1 ELSE 0))
         + 2 * BitOp(a \div 2, b \div 2, and)

RECURSIVE Power(_, _)
Power(b, e) == IF e = 0 THEN 1 ELSE b * Power(b, e - 1)

\* the numeric binary operators on two values that are not abrupt
Arith(o, l, r) ==
    CASE o = "-" -> IF NotANumber(l) \/ NotANumber(r) THEN JsNaN
                    ELSE JsNum(l.v - r.v)
      [] o = "*" -> IF NotANumber(l) \/ NotANumber(r) THEN JsNaN
                    ELSE JsNum(l.v * r.v)
      [] o = "**" -> IF NotANumber(r) THEN JsNaN
                     ELSE IF r.v = 0 THEN JsNum(1)
                     ELSE IF NotANumber(l) THEN JsNaN
                     ELSE IF r.v < 0 THEN Unmodelled
                     ELSE JsNum(Power(l.v, r.v))
      [] OTHER -> JsNum(BitOp(IF NotANumber(l) THEN 0 ELSE l.v,
                              IF NotANumber(r) THEN 0 ELSE r.v,
                              o = "&"))

\* the value of a member access, an optional chain and a unary operator
\* on the value o of the operand
MemberOf(o) ==
    IF Abrupt(o) THEN o ELSE IF o.t = "undef" THEN Thrown ELSE JsUndefined

ChainOf(o, ops) ==
    IF Abrupt(o) \/ o.t = "undef" THEN o
    ELSE IF ops = <<"prop">> THEN JsUndefined
    ELSE Thrown

UnaryOf(op1, x) ==
    IF Abrupt(x) THEN x
    ELSE IF op1 = "!" THEN Bool(~Truthy(x))
    ELSE IF NotANumber(x) THEN JsNaN
    ELSE JsNum(0 - x.v)

\* a numeric operator on the values of both operands
ArithOf(o, l, r) == IF Abrupt(r) THEN r ELSE Arith(o, l, r)

RECURSIVE JsEval(_)
JsEval(e) ==
    CASE e.t = "lit" -> e.v
      [] e.t = "id" -> Thrown
      [] e.t = "member" -> MemberOf(JsEval(e.e))
      [] e.t = "call" -> Thrown
      [] e.t = "opt" -> ChainOf(JsEval(e.e), e.ops)
      [] e.t = "un" -> UnaryOf(e.o, JsEval(e.e))
      [] OTHER ->
            Let(JsEval(e.l),
                LAMBDA l :
                   IF Abrupt(l) THEN l
                   ELSE IF e.o = "||" THEN (IF Truthy(l) THEN l ELSE JsEval(e.r))
                   ELSE IF e.o = "&&" THEN (IF Truthy(l) THEN JsEval(e.r) ELSE l)
                   ELSE IF e.o = "??"
                        THEN (IF l.t = "undef" THEN JsEval(e.r) ELSE l)
                   ELSE ArithOf(e.o, l, JsEval(e.r)))

\* the whole token sequence is one expression
Whole(toks, r) == IF r.ok /\ r.pos = Len(toks) + 1 THEN r ELSE Fail

\* the parse of `return (text)`: the parenthesised text is one expression
\* and nothing follows it
JsParse(text) ==
    Let(<<Tok("(")>> \o JsTokens(text, 1) \o <<Tok(")")>>,
        LAMBDA toks : Whole(toks, ParseShort(toks, 1)))

\* Function(...) builds the function: no SyntaxError
JsCompiles(text) == JsParse(text).ok

\* Function(...)(): the value returned, or Thrown for a SyntaxError of the
\* constructor and for an exception of the call
JsRun(text) ==
    IF ~JsModelled(text) THEN Unmodelled
    ELSE Let(JsParse(text),
             LAMBDA r : IF r.ok THEN JsEval(r.ast) ELSE Thrown)

(***************************************************************************)
(* The hook's functions.  granted is userPermissions, the list the         *)
(* closures read.                                                          *)
(***************************************************************************)
\* the checker without the special case of the lone wildcard
checkSimplePermissionPatternByRegExp(pattern, granted) ==
    IF Trim(pattern) = TrueText THEN JsTrue
    ELSE IF Trim(pattern) = FalseText THEN JsFalse
    ELSE IF ~RegExpModelled(pattern) THEN Unmodelled
    ELSE IF ~RegExpCompiles(regexPattern(pattern)) THEN Thrown
    ELSE Bool(\E i \in 1..Len(granted) :
                 RegExpTest(regexPattern(pattern), granted[i]))

\* use-permissions.tsx 62-82
checkSimplePermissionPattern(pattern, granted) ==
    IF Trim(pattern) = TrueText THEN JsTrue
    ELSE IF Trim(pattern) = FalseText THEN JsFalse
    ELSE IF Trim(pattern) = <<"*">> THEN JsTrue
    ELSE IF ~RegExpModelled(pattern) THEN Unmodelled
    ELSE IF ~RegExpCompiles(regexPattern(pattern)) THEN Thrown
    ELSE Bool(\E i \in 1..Len(granted) :
                 RegExpTest(regexPattern(pattern), granted[i]))

\* one turn of the loop over the matched permissions (125-155)
ReplacePermission(text, permission, granted) ==
    IF permission = TrueText \/ permission = FalseText THEN text
    ELSE Let(checkSimplePermissionPattern(permission, granted).v = 1,
             LAMBDA hasPermissionResult :
                IF permission = <<"*">> \/ permission = <<"?">>
                THEN ReplaceWildcard(text, 1, permission[1],
                                     BoolText(hasPermissionResult))
                ELSE ReplaceWord(text, 1, permission,
                                 BoolText(hasPermissionResult)))

RECURSIVE ReplaceAll(_, _, _)
ReplaceAll(text, perms, granted) ==
    IF perms = <<>> THEN text
    ELSE ReplaceAll(ReplacePermission(text, Head(perms), granted),
                    Tail(perms), granted)

\* the text handed to Function (123-155)
evaluatedExpression(expression, granted) ==
    ReplaceAll(jsExpression(expression), permissions(jsExpression(expression)),
               granted)

\* the try block fails: Function or the call of its result throws (157-163)
EvaluationFails(expression, granted) ==
    JsRun(evaluatedExpression(expression, granted)).t = "throw"

\* the evaluator with a catch block that grants
evaluatePermissionExpressionFailOpen(expression, granted) ==
    IF Trim(expression) = TrueText THEN JsTrue
    ELSE IF Trim(expression) = FalseText THEN JsFalse
    ELSE IF EvaluationFails(expression, granted) THEN JsTrue
    ELSE JsRun(evaluatedExpression(expression, granted))

\* use-permissions.tsx 93-164
evaluatePermissionExpression(expression, granted) ==
    IF Trim(expression) = TrueText THEN JsTrue
    ELSE IF Trim(expression) = FalseText THEN JsFalse
    ELSE IF EvaluationFails(expression, granted) THEN JsFalse
    ELSE JsRun(evaluatedExpression(expression, granted))

\* the pattern has a logical operator (179-184, and 32-35)
HasOperator(pattern) == Includes(pattern, "|") \/ Includes(pattern, "&")

\* use-permissions.tsx 177-190
hasPermissionPattern(pattern, granted) ==
    IF HasOperator(pattern) THEN evaluatePermissionExpression(pattern, granted)
    ELSE checkSimplePermissionPattern(pattern, granted)

\* hasPermission comparing the trimmed name with the granted strings
hasPermissionTrimmed(permission, granted) ==
    IF Trim(permission) = TrueText THEN JsTrue
    ELSE IF Trim(permission) = FalseText THEN JsFalse
    ELSE IF Includes(permission, "*") \/ Includes(permission, "?")
            \/ HasOperator(permission)
         THEN hasPermissionPattern(permission, granted)
    ELSE Bool(ListIncludes(granted, Trim(permission)))

\* use-permissions.tsx 23-41
hasPermission(permission, granted) ==
    IF Trim(permission) = TrueText THEN JsTrue
    ELSE IF Trim(permission) = FalseText THEN JsFalse
    ELSE IF Includes(permission, "*") \/ Includes(permission, "?")
            \/ HasOperator(permission)
         THEN hasPermissionPattern(permission, granted)
    ELSE Bool(ListIncludes(granted, permission))

\* use-permissions.tsx 228-230
checkExpression(expression, granted) ==
    evaluatePermissionExpression(expression, granted)

\* the text isValidExpression hands to Function (238-251)
testExpression(expression) == ReplaceIdentifiers(jsExpression(expression), 1)

\* a validator that evaluates the expression for the user and reports
\* whether the evaluation succeeded
isValidExpressionByEvaluation(expression) ==
    Bool(~EvaluationFails(expression, userPermissions))

\* use-permissions.tsx 235-258
isValidExpression(expression) ==
    IF ~JsModelled(testExpression(expression)) THEN Unmodelled
    ELSE Bool(JsCompiles(testExpression(expression)))

(***************************************************************************)
(* What a call hands to Function and to console.warn.                      *)
(***************************************************************************)
IsBooleanLiteral(text) == Trim(text) = TrueText \/ Trim(text) = FalseText

\* evaluatePermissionExpression: one text unless the literal shortcut returns
EvaluationTexts(expression, granted) ==
    IF IsBooleanLiteral(expression) THEN <<>>
    ELSE <<evaluatedExpression(expression, granted)>>

\* a warning that carries the normalised text
EvaluationWarningsNormalised(expression, granted) ==
    IF ~IsBooleanLiteral(expression) /\ EvaluationFails(expression, granted)
    THEN <<jsExpression(expression)>>
    ELSE <<>>

\* console.warn('Invalid permission expression:', expression, error) (161)
EvaluationWarnings(expression, granted) ==
    IF ~IsBooleanLiteral(expression) /\ EvaluationFails(expression, granted)
    THEN <<expression>>
    ELSE <<>>

\* hasPermission and hasPermissionPattern reach the evaluator
ReachesEvaluator(operation, text) ==
    operation \in {"hasPermission", "hasPermissionPattern"} /\ HasOperator(text)

FunctionTexts(operation, text, granted) ==
    IF operation = "isValidExpression" THEN <<testExpression(text)>>
    ELSE IF operation = "checkExpression" \/ ReachesEvaluator(operation, text)
    THEN EvaluationTexts(text, granted)
    ELSE <<>>

Warnings(operation, text, granted) ==
    IF operation = "checkExpression"
       \/ (operation # "isValidExpression" /\ ReachesEvaluator(operation, text))
    THEN EvaluationWarnings(text, granted)
    ELSE <<>>

(***************************************************************************)
(* The state machine: the hook is built over a granted list, and its       *)
(* functions are called one at a time.                                     *)
(***************************************************************************)
\* the lists of at most n entries drawn from pool
Lists(pool, n) == UNION {[1..k -> pool] : k \in 0..n}

\* an argument or property that was left out, and one that is there
Undefined == [defined |-> FALSE, v |-> <<>>]
Defined(list) == [defined |-> TRUE, v |-> list]

\* the auth prop: whether auth, auth.user and auth.user.permissions are
\* there, and the permissions array
Auth(hasAuth, hasUser, array) ==
    [auth |-> hasAuth, user |-> hasUser, permissions |-> array]

NoAuth == Auth(FALSE, FALSE, Undefined)

\* auth?.user?.permissions
AuthPermissions(props) ==
    IF props.auth /\ props.user THEN props.permissions ELSE Undefined

\* a hook that prefers the auth permissions to an empty custom array
GrantedListNonEmptyFirst(argument, props) ==
    IF argument.defined /\ argument.v # <<>> THEN argument.v
    ELSE IF AuthPermissions(props).defined THEN AuthPermissions(props).v
    ELSE <<>>

\* permissions !== undefined ? permissions : auth?.user?.permissions || []
GrantedList(argument, props) ==
    IF argument.defined THEN argument.v
    ELSE IF AuthPermissions(props).defined THEN AuthPermissions(props).v
    ELSE <<>>

\* the state after usePermissions(permissions) returned under the page
\* props, for one of the arguments and one of the auth props
Rendered(arguments, props) ==
    /\ permissionsArg \in arguments
    /\ auth \in props
    /\ userPermissions = GrantedList(permissionsArg, auth)
    /\ pc = "idle"
    /\ op = "none"
    /\ arg = <<>>
    /\ result = JsUndefined
    /\ fnText = <<>>
    /\ warned = <<>>

\* the state after usePermissions(list) returned, over one of the lists
Constructed(lists) ==
    /\ permissionsArg \in {Defined(list) : list \in lists}
    /\ auth = NoAuth
    /\ userPermissions = GrantedList(permissionsArg, auth)
    /\ pc = "idle"
    /\ op = "none"
    /\ arg = <<>>
    /\ result = JsUndefined
    /\ fnText = <<>>
    /\ warned = <<>>

Called(operation, text, value) ==
    /\ pc = "idle"
    /\ pc' = "returned"
    /\ op' = operation
    /\ arg' = text
    /\ result' = value
    /\ fnText' = FunctionTexts(operation, text, userPermissions)
    /\ warned' = Warnings(operation, text, userPermissions)
    /\ UNCHANGED <<permissionsArg, auth, userPermissions>>

HasPermission(permission) ==
    Called("hasPermission", permission, hasPermission(permission, userPermissions))

HasPermissionPattern(pattern) ==
    Called("hasPermissionPattern", pattern,
           hasPermissionPattern(pattern, userPermissions))

CheckExpression(expression) ==
    Called("checkExpression", expression,
           checkExpression(expression, userPermissions))

IsValidExpression(expression) ==
    Called("isValidExpression", expression, isValidExpression(expression))

\* the caller takes the result; the hook keeps nothing of the call
Return ==
    /\ pc = "returned"
    /\ pc' = "idle"
    /\ op' = "none"
    /\ arg' = <<>>
    /\ result' = JsUndefined
    /\ fnText' = <<>>
    /\ warned' = <<>>
    /\ UNCHANGED <<permissionsArg, auth, userPermissions>>

Returned(operation) == pc = "returned" /\ op = operation

Granted(name) == ListIncludes(userPermissions, name)

\* the longest granted list of a specification
MaxGranted == 2

OrOr == <<"|", "|">>
AndAnd == <<"&", "&">>
Space == <<" ">>

(***************************************************************************)
(* Hyphenated names in expressions without spaces.                         *)
(***************************************************************************)
HyphenNames == {<<"u", "-", "p">>, <<"a", "-", "r", ".", "e">>}

\* the names, and the words a hyphenated name falls into
HyphenPool == HyphenNames \cup {<<"u">>, <<"p">>}

HyphenExpressions ==
    {x \o o \o y : x \in HyphenNames, y \in HyphenNames, o \in {OrOr, AndAnd}}

InitHyphen == Constructed(Lists(HyphenPool, MaxGranted))
NextHyphen == (\E e \in HyphenExpressions : HasPermission(e)) \/ Return
SpecHyphen == InitHyphen /\ [][NextHyphen]_vars

\* C1: hasPermission on x||y is true iff x or y is granted, and on x&&y iff
\* both are, for permission names x and y that contain hyphens.
C1_HyphenPreserved ==
    \A x \in HyphenNames, y \in HyphenNames :
        /\ (Returned("hasPermission") /\ arg = x \o OrOr \o y)
              => (result = JsTrue) = (Granted(x) \/ Granted(y))
        /\ (Returned("hasPermission") /\ arg = x \o AndAnd \o y)
              => (result = JsTrue) = (Granted(x) /\ Granted(y))

(***************************************************************************)
(* The four spellings of a binary operator.                                *)
(***************************************************************************)
FormLeaves == {<<"a">>, <<"b">>, <<"a", ".", "b">>}

\* a||b, a || b, a|b, a | b (and the same with &)
Forms(a, c, b) ==
    {a \o <<c, c>> \o b, a \o Space \o <<c, c>> \o Space \o b,
     a \o <<c>> \o b, a \o Space \o <<c>> \o Space \o b}

FormExpressions ==
    UNION {Forms(a, c, b) : a \in FormLeaves, b \in FormLeaves, c \in {"|", "&"}}

InitForms == Constructed(Lists(FormLeaves, MaxGranted))
NextForms == (\E e \in FormExpressions : HasPermission(e)) \/ Return
SpecForms == InitForms /\ [][NextForms]_vars

\* C2: the four spellings of an operator between two leaves give the same
\* result of hasPermission.
C2_FormsAgree ==
    \A a \in FormLeaves, b \in FormLeaves, c \in {"|", "&"} :
        \A e1 \in Forms(a, c, b), e2 \in Forms(a, c, b) :
            (Returned("hasPermission") /\ arg = e1)
                => result = hasPermission(e2, userPermissions)

(***************************************************************************)
(* Precedence and grouping.                                                *)
(***************************************************************************)
PrecedenceNames == {<<"a">>, <<"b">>, <<"a", ".", "b">>}
PrecedenceLeaves == PrecedenceNames \cup {<<"a", ".", "*">>}

AndThenOr(a, b, c) == a \o <<" ", "&", "&", " ">> \o b \o <<" ", "|", "|", " ">> \o c
OrThenAnd(a, b, c) == a \o <<" ", "|", "|", " ">> \o b \o <<" ", "&", "&", " ">> \o c
GroupedOr(a, b, c) ==
    <<"(">> \o a \o <<" ", "|", "|", " ">> \o b \o <<")", " ", "&", "&", " ">> \o c

PrecedenceExpressions ==
    UNION {{AndThenOr(a, b, c), OrThenAnd(a, b, c), GroupedOr(a, b, c)} :
              a \in PrecedenceLeaves, b \in PrecedenceLeaves, c \in PrecedenceLeaves}

InitPrecedence == Constructed(Lists(PrecedenceNames, MaxGranted))
NextPrecedence == (\E e \in PrecedenceExpressions : HasPermission(e)) \/ Return
SpecPrecedence == InitPrecedence /\ [][NextPrecedence]_vars

\* a leaf's value: its own match against the granted list
LeafValue(leaf) == hasPermission(leaf, userPermissions) = JsTrue

\* C3: a && b || c is (a AND b) OR c, a || b && c is a OR (b AND c), and
\* (a || b) && c is (a OR b) AND c, over the leaves' values.
C3_Precedence ==
    \A a \in PrecedenceLeaves, b \in PrecedenceLeaves, c \in PrecedenceLeaves :
        /\ (Returned("hasPermission") /\ arg = AndThenOr(a, b, c))
              => (result = JsTrue) = ((LeafValue(a) /\ LeafValue(b)) \/ LeafValue(c))
        /\ (Returned("hasPermission") /\ arg = OrThenAnd(a, b, c))
              => (result = JsTrue) = (LeafValue(a) \/ (LeafValue(b) /\ LeafValue(c)))
        /\ (Returned("hasPermission") /\ arg = GroupedOr(a, b, c))
              => (result = JsTrue) = ((LeafValue(a) \/ LeafValue(b)) /\ LeafValue(c))

(***************************************************************************)
(* Operator-free patterns.                                                 *)
(***************************************************************************)
\* the strings of at most n characters of an alphabet
Strings(alphabet, n) == UNION {[1..k -> alphabet] : k \in 0..n}

\* the longest pattern and the longest granted string that are enumerated
MaxPatternLen == 3
MaxNameLen == 2

\* a letter, a non-word literal, the dot and the two wildcards
GlobAlphabet == {"a", "-", ".", "*", "?"}
GlobPatterns == Strings(GlobAlphabet, MaxPatternLen)

\* granted strings, some with a line terminator
GlobNames == Strings({"a", "-", ".", "\n"}, MaxNameLen)

\* the empty list, one name, and one name beside a fixed other entry
GlobLists ==
    {<<>>} \cup {<<g>> : g \in GlobNames}
           \cup {<<<<"a", "a", "a">>, g>> : g \in GlobNames}

InitGlob == Constructed(GlobLists)
NextGlob == (\E p \in GlobPatterns : HasPermissionPattern(p)) \/ Return
SpecGlob == InitGlob /\ [][NextGlob]_vars

\* The glob relation, defined on its own: the whole of str matches the whole
\* of pattern, a wildcard matching any character outside unmatched.
RECURSIVE GlobMatch(_, _, _)
GlobMatch(pattern, str, unmatched) ==
    IF pattern = <<>> THEN str = <<>>
    ELSE IF Head(pattern) = "*"
         THEN \/ GlobMatch(Tail(pattern), str, unmatched)
              \/ /\ str # <<>>
                 /\ Head(str) \notin unmatched
                 /\ GlobMatch(pattern, Tail(str), unmatched)
    ELSE /\ str # <<>>
         /\ IF Head(pattern) = "?" THEN Head(str) \notin unmatched
            ELSE Head(str) = Head(pattern)
         /\ GlobMatch(Tail(pattern), Tail(str), unmatched)

SomeGrantedMatches(pattern, unmatched) ==
    \E i \in 1..Len(userPermissions) :
        GlobMatch(pattern, userPermissions[i], unmatched)

ExactNames ==
    {<<"a">>, <<"A">>, <<"a", ".", "b">>, <<"a", ".">>, <<" ", "a">>,
     <<"a", " ">>, <<>>, <<"t", "r", "u", "e">>, <<" ", "t", "r", "u", "e">>,
     <<"f", "a", "l", "s", "e", " ">>}

InitExact == Constructed(Lists(ExactNames, MaxGranted))
NextExact == (\E p \in ExactNames : HasPermission(p)) \/ Return
SpecExact == InitExact /\ [][NextExact]_vars

\* C5: hasPermission of a pattern with no wildcard and no operator, which
\* does not trim to true or false, is true exactly when the granted list
\* holds that very string.
C5_ExactMembership ==
    (Returned("hasPermission") /\ arg \in ExactNames /\ ~IsBooleanLiteral(arg))
        => result = Bool(\E i \in 1..Len(userPermissions) :
                             userPermissions[i] = arg)

\* the name was asked for with a leading space while only the bare name,
\* its upper-case form and a longer name are granted
C5_Witness ==
    /\ Returned("hasPermission")
    /\ arg = <<" ", "a">>
    /\ userPermissions = <<<<"a">>, <<"a", ".", "b">>>>
    /\ result = JsFalse

(***************************************************************************)
(* Patterns that trim to the universal wildcard or to a boolean literal.   *)
(***************************************************************************)
Padded(text) ==
    {text, <<" ">> \o text, text \o <<" ">>, <<"\t">> \o text \o <<"\n">>,
     <<" ", " ">> \o text \o <<" ">>}

UniversalPatterns ==
    Padded(<<"*">>) \cup Padded(TrueText) \cup Padded(FalseText)

UniversalPool == {<<"a">>, <<"*">>, TrueText, FalseText, <<"a", ".", "b">>}

InitUniversal == Constructed(Lists(UniversalPool, MaxGranted))
NextUniversal ==
    \/ \E p \in UniversalPatterns : HasPermission(p)
    \/ \E p \in UniversalPatterns : HasPermissionPattern(p)
    \/ Return
SpecUniversal == InitUniversal /\ [][NextUniversal]_vars

\* C6: hasPermission and hasPermissionPattern are true for a pattern that
\* trims to * or to true and false for one that trims to false, whatever is
\* granted.
C6_Unconditional ==
    (/\ Returned("hasPermission") \/ Returned("hasPermissionPattern")
     /\ arg \in UniversalPatterns)
        => result = Bool(Trim(arg) # FalseText)

\* the padded wildcard was granted to a user with no permissions
C6_Witness ==
    /\ Returned("hasPermissionPattern")
    /\ arg = <<" ", "*">>
    /\ userPermissions = <<>>
    /\ result = JsTrue

(***************************************************************************)
(* Expressions that begin or end with an operator.                         *)
(***************************************************************************)
Operators == {<<"|">>, <<"&">>, OrOr, AndAnd}

DanglingOperands ==
    {<<"a">>, <<"a", ".", "b">>, <<"a", ".", "*">>, <<"*">>, TrueText,
     <<"(", "a", ")">>, <<"a", " ", "|", "|", " ", "b">>}

Dangling(operand) ==
    UNION {{o \o operand, o \o Space \o operand,
            operand \o o, operand \o Space \o o,
            Space \o o \o operand, operand \o o \o Space} : o \in Operators}

DanglingExpressions == UNION {Dangling(x) : x \in DanglingOperands}

DanglingPool == {<<"a">>, <<"a", ".", "b">>, <<"b">>}

InitDangling == Constructed(Lists(DanglingPool, MaxGranted))
NextDangling ==
    \/ \E e \in DanglingExpressions : CheckExpression(e)
    \/ \E e \in DanglingExpressions : HasPermission(e)
    \/ \E e \in DanglingExpressions : IsValidExpression(e)
    \/ Return
SpecDangling == InitDangling /\ [][NextDangling]_vars

\* C7: an expression that begins or ends with an operator makes
\* checkExpression, hasPermission and isValidExpression return false.
C7_DanglingDenied ==
    (/\ pc = "returned"
     /\ op \in {"checkExpression", "hasPermission", "isValidExpression"}
     /\ arg \in DanglingExpressions)
        => result = JsFalse

\* the operand is granted, its replacement was handed to Function with the
\* operator after it, and the failure was caught
C7_Witness ==
    /\ Returned("checkExpression")
    /\ arg = <<"a", " ", "&", "&">>
    /\ Granted(<<"a">>)
    /\ fnText = <<TrueText \o Space \o AndAnd>>
    /\ warned = <<arg>>
    /\ result = JsFalse

(***************************************************************************)
(* Adjacent atoms and unbalanced parentheses.                              *)
(***************************************************************************)
AdjacentExpressions ==
    {<<"a", " ", "b">>,
     <<"a", " ", "(", "b", ")">>,
     <<"(", "a", ")", " ", "b">>,
     <<"(", "a", ")", " ", "(", "b", ")">>,
     <<"a", " ", "b", " ", "|", "|", " ", "a">>,
     <<"a", " ", "|", "|", " ", "a", " ", "(", "b", ")">>}

UnbalancedExpressions ==
    {<<"a", ")", " ", "|", "|", " ", "(", "b">>,
     <<"(", "a", " ", "|", "|", " ", "b">>,
     <<"a", " ", "|", "|", " ", "b", ")">>,
     <<"(", "(", "a", " ", "&", "&", " ", "b", ")">>,
     <<")", "a", " ", "|", "|", " ", "b", "(">>,
     <<"a", " ", "&", "&", " ", "(", ")">>}

SyntaxExpressions == AdjacentExpressions \cup UnbalancedExpressions

SyntaxPool == {<<"a">>, <<"b">>, <<"c">>}

InitSyntax == Constructed(Lists(SyntaxPool, MaxGranted))
NextSyntax ==
    \/ \E e \in SyntaxExpressions : IsValidExpression(e)
    \/ \E e \in SyntaxExpressions : CheckExpression(e)
    \/ Return
SpecSyntax == InitSyntax /\ [][NextSyntax]_vars

\* C8: an expression with two adjacent atoms and no operator between them,
\* or with unmatched or misordered parentheses, makes isValidExpression and
\* checkExpression return false.
C8_SyntaxErrorDenied ==
    (/\ Returned("isValidExpression") \/ Returned("checkExpression")
     /\ arg \in SyntaxExpressions)
        => result = JsFalse

(***************************************************************************)
(* Patterns with characters that are special to RegExp.                    *)
(***************************************************************************)
ThrowPatterns ==
    {<<"a", "*", "(">>, <<"a", ")", "*">>, <<"(", "a", "?">>,
     <<"(", "a", ")", "*">>, <<"a", "(", "b", ")", "?">>,
     <<"a", "*", "(", " ", "|", "|", " ", "b">>,
     <<"a", "-", "*">>, <<"a", " ", "*">>, <<"!", "a", "*">>,
     <<"a", "(">>, <<"a", " ", "&", "&">>, <<"a", " ", "b", " ", "|", " ", "c">>}

InitThrow == Constructed(Lists(SyntaxPool, MaxGranted))
NextThrow ==
    \/ \E p \in ThrowPatterns : HasPermission(p)
    \/ \E p \in ThrowPatterns : HasPermissionPattern(p)
    \/ \E p \in ThrowPatterns : CheckExpression(p)
    \/ Return
SpecThrow == InitThrow /\ [][NextThrow]_vars

\* C9: hasPermission, hasPermissionPattern and checkExpression return a
\* value for every input and never raise an exception to the caller.
C9_NeverThrows ==
    (/\ pc = "returned"
     /\ op \in {"hasPermission", "hasPermissionPattern", "checkExpression"})
        => result # Thrown

(***************************************************************************)
(* The text handed to Function.                                            *)
(***************************************************************************)
\* text is built of true, false, the two operators, parentheses and white
\* space alone
RECURSIVE IsBooleanText(_, _)
IsBooleanText(text, i) ==
    IF i > Len(text) THEN TRUE
    ELSE IF text[i] \in WhiteSpace \cup {"(", ")"} THEN IsBooleanText(text, i + 1)
    ELSE IF HasAt(text, i, OrOr) \/ HasAt(text, i, AndAnd)
         THEN IsBooleanText(text, i + 2)
    ELSE IF HasAt(text, i, TrueText) THEN IsBooleanText(text, i + 4)
    ELSE IF HasAt(text, i, FalseText) THEN IsBooleanText(text, i + 5)
    ELSE FALSE

InjectionExpressions ==
    {<<"a", " ", "|", "|", " ", "b">>,
     <<"a", "|", "b">>,
     <<"!", "a", " ", "&", "&", " ", "b">>,
     <<"a", "-", "b", " ", "|", "|", " ", "c">>,
     <<"a", ".", "*", " ", "|", "|", " ", "b">>,
     <<"a", " ", "|", "|", " ", "a", ".", "b">>,
     <<"(", "a", " ", "&", "&", " ", "b", ")", " ", "|", "|", " ", "c">>,
     <<"a", " ", "&", "&", " ", "x", ".", "y", "(", ")">>}

InitInjection == Constructed(Lists(SyntaxPool, MaxGranted))
NextInjection ==
    \/ \E e \in InjectionExpressions : CheckExpression(e)
    \/ \E e \in InjectionExpressions : HasPermission(e)
    \/ \E e \in InjectionExpressions : IsValidExpression(e)
    \/ Return
SpecInjection == InitInjection /\ [][NextInjection]_vars

\* C10: every text handed to Function consists only of true, false, the
\* operators || and &&, parentheses and white space.
C10_OnlyBooleanTokens ==
    \A k \in 1..Len(fnText) : IsBooleanText(fnText[k], 1)

(***************************************************************************)
(* Patterns with characters that RegExp reads as assertions.               *)
(***************************************************************************)
MetaPatterns == Strings({"a", "$", "^", "*", "?"}, MaxPatternLen)

MetaNames == Strings({"a", "$", "^"}, MaxNameLen)

MetaLists == {<<>>} \cup {<<g>> : g \in MetaNames}

InitMeta == Constructed(MetaLists)
NextMeta ==
    \/ \E p \in MetaPatterns : HasPermissionPattern(p)
    \/ \E p \in MetaPatterns : HasPermission(p)
    \/ Return
SpecMeta == InitMeta /\ [][NextMeta]_vars

\* C11: in a pattern handled by the pattern matcher, every character other
\* than * and ? matches only itself: the pattern is true exactly when a
\* granted string matches it as a glob with $ and ^ read literally.
C11_MetaLiteral ==
    (/\ pc = "returned"
     /\ op \in {"hasPermissionPattern", "hasPermission"}
     /\ arg \in MetaPatterns
     /\ Includes(arg, "*") \/ Includes(arg, "?")
     /\ arg # <<"*">>)
        => result = Bool(SomeGrantedMatches(arg, LineTerminators))

(***************************************************************************)
(* Expressions whose leaves have wildcards.                                *)
(***************************************************************************)
\* the wildcard trailing, leading, alone, and as the one-character wildcard
WildcardLeaves ==
    {<<"a", ".", "*">>, <<"*", ".", "a">>, <<"*">>, <<"a", ".", "?">>}

WildcardOperands == WildcardLeaves \cup {<<"b">>}

Joined(l, o, r) == l \o Space \o o \o Space \o r

\* the two-leaf expressions with a wildcard leaf on either side
WildcardExpressions ==
    {Joined(l, o, r) : l \in WildcardLeaves, o \in {OrOr, AndAnd},
                       r \in WildcardOperands}
    \cup {Joined(l, o, r) : l \in WildcardOperands, o \in {OrOr, AndAnd},
                            r \in WildcardLeaves}

WildcardPool == {<<"a", ".", "b">>, <<"b">>, <<"x", ".", "a">>}

InitWildcard == Constructed(Lists(WildcardPool, MaxGranted))
NextWildcard ==
    \/ \E e \in WildcardExpressions : HasPermission(e)
    \/ \E e \in WildcardExpressions : CheckExpression(e)
    \/ Return
SpecWildcard == InitWildcard /\ [][NextWildcard]_vars

\* C12: in an expression with operators, a leaf with a wildcard has the
\* value of the glob match of the whole leaf against the granted list,
\* wherever the wildcard sits and whatever the other leaf is.
C12_WildcardLeaves ==
    \A l \in WildcardOperands, r \in WildcardOperands :
        /\ (pc = "returned" /\ arg = Joined(l, OrOr, r))
              => (result = JsTrue) = (LeafValue(l) \/ LeafValue(r))
        /\ (pc = "returned" /\ arg = Joined(l, AndAnd, r))
              => (result = JsTrue) = (LeafValue(l) /\ LeafValue(r))

(***************************************************************************)
(* The type of the value returned.                                         *)
(***************************************************************************)
\* plain leaves, a leaf that is the dotted prefix of another, a hyphenated
\* leaf, and operator-free inputs
BooleanInputs ==
    {<<"a", " ", "|", "|", " ", "b">>,
     <<"a", " ", "&", "&", " ", "b">>,
     <<"a", " ", "|", "|", " ", "a", ".", "b">>,
     <<"a", " ", "&", "&", " ", "a", ".", "b">>,
     <<"a", "-", "b", " ", "|", "|", " ", "b", "-", "a">>,
     <<"a", "-", "b", " ", "&", "&", " ", "b">>,
     <<"a", " ", "|", "|">>,
     <<"a", ".", "*">>,
     <<"a">>,
     TrueText}

BooleanPool == {<<"a">>, <<"b">>, <<"a", ".", "b">>, <<"a", "-", "b">>}

InitBoolean == Constructed(Lists(BooleanPool, MaxGranted))
NextBoolean ==
    \/ \E e \in BooleanInputs : HasPermission(e)
    \/ \E e \in BooleanInputs : CheckExpression(e)
    \/ Return
SpecBoolean == InitBoolean /\ [][NextBoolean]_vars

\* C13: the value returned by hasPermission and by checkExpression is the
\* boolean true or the boolean false.
C13_BooleanResult ==
    (Returned("hasPermission") \/ Returned("checkExpression"))
        => result \in {JsTrue, JsFalse}

(***************************************************************************)
(* Runs of three or more operator characters.                              *)
(***************************************************************************)
\* the longest run of one operator character that is enumerated
MaxRun == 6

Run(c, n) == [i \in 1..n |-> c]

LongRuns == {Run(c, n) : c \in {"|", "&"}, n \in 3..MaxRun}

RunOperands == {<<"a">>, <<"b">>, TrueText, <<"a", ".", "b">>}

\* two operands about a run, with and without spaces
RunExpressions ==
    UNION {{l \o o \o r, l \o Space \o o \o Space \o r} :
              l \in RunOperands, o \in LongRuns, r \in RunOperands}

RunPool == {<<"a">>, <<"b">>, <<"a", ".", "b">>}

InitRun == Constructed(Lists(RunPool, MaxGranted))
NextRun == (\E e \in RunExpressions : HasPermission(e)) \/ Return
SpecRun == InitRun /\ [][NextRun]_vars

\* C14: two operands separated by a run of three or more identical
\* operator characters make hasPermission return false.
C14_LongRunsDenied ==
    (Returned("hasPermission") /\ arg \in RunExpressions) => result = JsFalse

\* both operands are granted, the run of three was normalised to a run of
\* three, and the failure of the evaluation was caught
C14_Witness ==
    /\ Returned("hasPermission")
    /\ arg = <<"a", " ", "|", "|", "|", " ", "b">>
    /\ Granted(<<"a">>) /\ Granted(<<"b">>)
    /\ fnText = <<TrueText \o <<" ", "|", "|", "|", " ">> \o TrueText>>
    /\ warned = <<arg>>
    /\ result = JsFalse

(***************************************************************************)
(* Expressions of the documented grammar.                                  *)
(***************************************************************************)
GrammarAtoms ==
    {<<"a">>, <<"a", ".", "b">>, <<"a", "_", "b">>, <<"a", "-", "b">>,
     <<"a", ".", "*">>, <<"a", "?">>, <<"*">>, <<"?">>}

Parens(e) == <<"(">> \o e \o <<")">>

\* two atoms about an operator, with and without spaces
GrammarPairs ==
    UNION {{Joined(l, o, r), l \o o \o r} :
              l \in GrammarAtoms, o \in {OrOr, AndAnd}, r \in GrammarAtoms}

\* the atoms, the pairs, and the pairs nested one, two and three levels deep
GrammarExpressions ==
    GrammarAtoms \cup GrammarPairs
    \cup {Joined(Parens(e), AndAnd, <<"a">>) : e \in GrammarPairs}
    \cup {Joined(<<"b">>, OrOr, Parens(Joined(Parens(e), AndAnd, <<"a">>))) :
             e \in GrammarPairs}
    \cup {Parens(Parens(Parens(e))) : e \in GrammarPairs}

GrammarPool == {<<"a">>, <<"a", ".", "b">>}

InitGrammar == Constructed(Lists(GrammarPool, MaxGranted))
NextGrammar == (\E e \in GrammarExpressions : IsValidExpression(e)) \/ Return
SpecGrammar == InitGrammar /\ [][NextGrammar]_vars

\* C15: isValidExpression returns true for every expression of the
\* grammar: atoms, a standalone * or ? among them, combined with || and &&
\* and parentheses nested up to three levels.
C15_ValidatorComplete ==
    (Returned("isValidExpression") /\ arg \in GrammarExpressions)
        => result = JsTrue

(***************************************************************************)
(* The validator under different granted lists.                            *)
(***************************************************************************)
\* well-formed and ill-formed expressions, and expressions whose
\* evaluation fails for some granted lists only
ValidityExpressions ==
    SyntaxExpressions \cup InjectionExpressions
    \cup {<<"a", " ", "|", "|", " ", "(", "b", ")", "(", "a", ")">>,
          <<"a", " ", "&", "&", " ", "b", " ", "(", "a", ")">>,
          <<"a", " ", "&", "&">>,
          <<"*", " ", "|", "|", " ", "a">>}

InitValidity == Constructed(Lists(SyntaxPool, MaxGranted))
NextValidity == (\E e \in ValidityExpressions : IsValidExpression(e)) \/ Return
SpecValidity == InitValidity /\ [][NextValidity]_vars

\* the verdict on the text alone: the test text compiles
SyntaxVerdict(expression) == Bool(JsCompiles(testExpression(expression)))

\* C16: the result of isValidExpression is a function of the expression
\* text alone (its syntax verdict), so it is the same under any two
\* granted lists.
C16_ValidityIgnoresGranted ==
    (Returned("isValidExpression") /\ arg \in ValidityExpressions)
        => result = SyntaxVerdict(arg)

\* the expression is valid for a user under whose list its evaluation
\* fails: the call of a boolean is reached because a is not granted
C16_Witness ==
    /\ Returned("isValidExpression")
    /\ arg = <<"a", " ", "|", "|", " ", "(", "b", ")", "(", "a", ")">>
    /\ userPermissions = <<<<"b">>>>
    /\ result = JsTrue
    /\ checkExpression(arg, userPermissions) = JsFalse
    /\ checkExpression(arg, <<<<"a">>>>) = JsTrue

(***************************************************************************)
(* Expressions with the negation operator.                                 *)
(***************************************************************************)
NegationExpressions ==
    {<<"!", "a">>,
     <<"!", "a", ".", "b">>,
     <<"!", " ", "a">>,
     <<"!", "!", "a">>,
     <<"a", " ", "&", "&", " ", "!", "b">>,
     <<"!", "a", " ", "|", "|", " ", "b">>,
     <<"!", "(", "a", " ", "|", "|", " ", "b", ")">>,
     <<"a", " ", "|", "|", " ", "!", "(", "b", ")">>}

NegationPool == {<<"a">>, <<"b">>, <<"a", ".", "b">>}

InitNegation == Constructed(Lists(NegationPool, MaxGranted))
NextNegation ==
    \/ \E e \in NegationExpressions : IsValidExpression(e)
    \/ \E e \in NegationExpressions : CheckExpression(e)
    \/ Return
SpecNegation == InitNegation /\ [][NextNegation]_vars

\* C17: an expression with the negation operator is outside the grammar:
\* isValidExpression and checkExpression return false for it.
C17_NegationRejected ==
    (/\ Returned("isValidExpression") \/ Returned("checkExpression")
     /\ arg \in NegationExpressions)
        => result = JsFalse

(***************************************************************************)
(* The bulk helpers (use-permissions.tsx 46-57, 196-206).                  *)
(* Array.prototype.some stops at the first element whose callback value    *)
(* is truthy and every at the first whose value is falsy; an exception of  *)
(* the callback ends the call.                                             *)
(***************************************************************************)
\* permissions.some(permission => userPermissions.includes(permission))
hasAnyPermission(names, granted) ==
    Bool(\E i \in 1..Len(names) : ListIncludes(granted, names[i]))

\* permissions.every(permission => userPermissions.includes(permission))
hasAllPermissions(names, granted) ==
    Bool(\A i \in 1..Len(names) : ListIncludes(granted, names[i]))

\* the patterns from index i on that some (onTruthy) or every (~onTruthy)
\* hands to hasPermissionPattern
RECURSIVE Visited(_, _, _, _)
Visited(patterns, i, granted, onTruthy) ==
    IF i > Len(patterns) THEN <<>>
    ELSE Let(hasPermissionPattern(patterns[i], granted),
             LAMBDA v : <<patterns[i]>>
                        \o IF Abrupt(v) \/ Truthy(v) = onTruthy THEN <<>>
                           ELSE Visited(patterns, i + 1, granted, onTruthy))

\* the value of the last call, "none" when no call was made
LastValue(visited, granted) ==
    IF visited = <<>> THEN [t |-> "none", v |-> 0]
    ELSE hasPermissionPattern(visited[Len(visited)], granted)

\* patterns.some(pattern => hasPermissionPattern(pattern))
hasAnyPattern(patterns, granted) ==
    Let(LastValue(Visited(patterns, 1, granted, TRUE), granted),
        LAMBDA v : IF Abrupt(v) THEN v ELSE Bool(v.t # "none" /\ Truthy(v)))

\* patterns.every(pattern => hasPermissionPattern(pattern))
hasAllPatterns(patterns, granted) ==
    Let(LastValue(Visited(patterns, 1, granted, FALSE), granted),
        LAMBDA v : IF Abrupt(v) THEN v ELSE Bool(v.t = "none" \/ Truthy(v)))

\* the texts handed to Function and the warnings of the calls made
RECURSIVE VisitedTexts(_, _, _)
VisitedTexts(visited, i, granted) ==
    IF i > Len(visited) THEN <<>>
    ELSE FunctionTexts("hasPermissionPattern", visited[i], granted)
         \o VisitedTexts(visited, i + 1, granted)

RECURSIVE VisitedWarnings(_, _, _)
VisitedWarnings(visited, i, granted) ==
    IF i > Len(visited) THEN <<>>
    ELSE Warnings("hasPermissionPattern", visited[i], granted)
         \o VisitedWarnings(visited, i + 1, granted)

\* a call of a bulk helper: input is the array, visited the patterns it
\* handed to hasPermissionPattern
CalledBulk(operation, input, value, visited) ==
    /\ pc = "idle"
    /\ pc' = "returned"
    /\ op' = operation
    /\ arg' = input
    /\ result' = value
    /\ fnText' = VisitedTexts(visited, 1, userPermissions)
    /\ warned' = VisitedWarnings(visited, 1, userPermissions)
    /\ UNCHANGED <<permissionsArg, auth, userPermissions>>

HasAnyPermission(names) ==
    CalledBulk("hasAnyPermission", names,
               hasAnyPermission(names, userPermissions), <<>>)

HasAllPermissions(names) ==
    CalledBulk("hasAllPermissions", names,
               hasAllPermissions(names, userPermissions), <<>>)

HasAnyPattern(patterns) ==
    CalledBulk("hasAnyPattern", patterns,
               hasAnyPattern(patterns, userPermissions),
               Visited(patterns, 1, userPermissions, TRUE))

HasAllPatterns(patterns) ==
    CalledBulk("hasAllPatterns", patterns,
               hasAllPatterns(patterns, userPermissions),
               Visited(patterns, 1, userPermissions, FALSE))

\* the longest array handed to a bulk helper
MaxBulk == 2

\* a name, a glob, an expression of granted and ungranted names, the
\* universal wildcard, and a pattern RegExp rejects
BulkPatterns ==
    {<<"a">>, <<"a", ".", "*">>, <<"a", " ", "|", "|", " ", "b">>, <<"*">>,
     <<"(", "a", "?">>}

BulkInputs == Lists(BulkPatterns, MaxBulk)

BulkPool == {<<"a">>, <<"b">>, <<"a", ".", "b">>}

InitBulk == Constructed(Lists(BulkPool, MaxGranted))
NextBulk ==
    \/ \E ps \in BulkInputs : HasAnyPermission(ps)
    \/ \E ps \in BulkInputs : HasAllPermissions(ps)
    \/ \E ps \in BulkInputs : HasAnyPattern(ps)
    \/ \E ps \in BulkInputs : HasAllPatterns(ps)
    \/ Return
SpecBulk == InitBulk /\ [][NextBulk]_vars

PatternHolds(p) == hasPermissionPattern(p, userPermissions) = JsTrue

\* C18: hasAnyPattern is true iff hasPermissionPattern is true for some
\* element and hasAllPatterns iff it is true for every element;
\* hasAnyPermission and hasAllPermissions are the same over membership in
\* the granted list; so the empty array gives false for the any helpers
\* and true for the all helpers.
C18_BulkQuantifiers ==
    /\ Returned("hasAnyPattern")
          => (result = JsTrue) = (\E i \in 1..Len(arg) : PatternHolds(arg[i]))
    /\ Returned("hasAllPatterns")
          => (result = JsTrue) = (\A i \in 1..Len(arg) : PatternHolds(arg[i]))
    /\ Returned("hasAnyPermission")
          => (result = JsTrue) = (\E i \in 1..Len(arg) : Granted(arg[i]))
    /\ Returned("hasAllPermissions")
          => (result = JsTrue) = (\A i \in 1..Len(arg) : Granted(arg[i]))

(***************************************************************************)
(* getMatchingPermissions (use-permissions.tsx 212-222).                   *)
(***************************************************************************)
JsArray(entries) == [t |-> "array", v |-> entries]

\* a filter whose regular expression is not anchored at the end
getMatchingPermissionsOpenEnded(pattern, granted) ==
    IF ~RegExpModelled(pattern) THEN Unmodelled
    ELSE IF ~RegExpCompiles(regexPatternOpenEnded(pattern)) THEN Thrown
    ELSE JsArray(SelectSeq(granted,
                           LAMBDA g : RegExpTest(regexPatternOpenEnded(pattern),
                                                 g)))

\* userPermissions.filter(permission => regex.test(permission))
getMatchingPermissions(pattern, granted) ==
    IF ~RegExpModelled(pattern) THEN Unmodelled
    ELSE IF ~RegExpCompiles(regexPattern(pattern)) THEN Thrown
    ELSE JsArray(SelectSeq(granted,
                           LAMBDA g : RegExpTest(regexPattern(pattern), g)))

\* a filter that also keeps its result as the granted list
GetMatchingPermissionsInPlace(pattern) ==
    /\ pc = "idle"
    /\ pc' = "returned"
    /\ op' = "getMatchingPermissions"
    /\ arg' = pattern
    /\ result' = getMatchingPermissions(pattern, userPermissions)
    /\ fnText' = <<>>
    /\ warned' = <<>>
    /\ userPermissions' = IF result'.t = "array" THEN result'.v
                          ELSE userPermissions
    /\ UNCHANGED <<permissionsArg, auth>>

GetMatchingPermissions(pattern) ==
    Called("getMatchingPermissions", pattern,
           getMatchingPermissions(pattern, userPermissions))

\* globs over a letter, the dot, the wildcards and a character that
\* RegExp reads as an assertion
MatchingPatterns == Strings({"a", ".", "*", "?", "$"}, MaxPatternLen)

\* names that repeat, that extend one another, and a name with a $
MatchingPool == {<<"a">>, <<"a", "a">>, <<"a", ".", "a">>, <<"a", "$">>}

InitMatching == Constructed(Lists(MatchingPool, MaxGranted))
NextMatching == (\E p \in MatchingPatterns : GetMatchingPermissions(p)) \/ Return
SpecMatching == InitMatching /\ [][NextMatching]_vars

\* C19: getMatchingPermissions returns the entries of the granted list
\* that match the pattern in full, in the list's order and with duplicates
\* kept.
C19_MatchingEntries ==
    (Returned("getMatchingPermissions") /\ arg \in MatchingPatterns)
        => result = JsArray(SelectSeq(userPermissions,
                                      LAMBDA g : GlobMatch(arg, g, LineTerminators)))

(***************************************************************************)
(* The source of the granted list.                                         *)
(***************************************************************************)
SourcePool == {<<"a">>, <<"b">>}

SourceLists == Lists(SourcePool, MaxGranted)

\* no argument, or an array (the empty one among them)
SourceArguments == {Undefined} \cup {Defined(list) : list \in SourceLists}

\* no auth, auth without a user, a user without permissions, and a user
\* with a permissions array
SourceAuth ==
    {NoAuth, Auth(TRUE, FALSE, Undefined), Auth(TRUE, TRUE, Undefined)}
    \cup {Auth(TRUE, TRUE, Defined(list)) : list \in SourceLists}

SourceChecks == {<<"a">>, <<"b">>, <<"a", " ", "&", "&", " ", "b">>, <<"?">>}

InitSource == Rendered(SourceArguments, SourceAuth)
NextSource ==
    \/ \E p \in SourceChecks : HasPermission(p)
    \/ \E p \in SourceChecks : HasPermissionPattern(p)
    \/ \E p \in SourceChecks : GetMatchingPermissions(p)
    \/ Return
SpecSource == InitSource /\ [][NextSource]_vars

\* the list the claim names: the custom array when one is passed, else the
\* auth user's permissions, else the empty list
NamedList ==
    IF permissionsArg.defined THEN permissionsArg.v
    ELSE IF auth.auth /\ auth.user /\ auth.permissions.defined
         THEN auth.permissions.v
    ELSE <<>>

\* C20: with a custom array, the empty one included, every check uses that
\* array and never the auth permissions; without one the auth user's
\* permissions are used; when auth, user or permissions is missing the
\* granted list is empty.
C20_GrantedListSource ==
    /\ userPermissions = NamedList
    /\ Returned("hasPermission") => result = hasPermission(arg, NamedList)
    /\ Returned("hasPermissionPattern")
          => result = hasPermissionPattern(arg, NamedList)
    /\ Returned("getMatchingPermissions")
          => result = getMatchingPermissions(arg, NamedList)

\* the empty custom array was passed while the auth user has the
\* permission asked for, and the check was denied
C20_Witness ==
    /\ Returned("hasPermission")
    /\ permissionsArg = Defined(<<>>)
    /\ auth = Auth(TRUE, TRUE, Defined(<<<<"a">>>>))
    /\ arg = <<"a">>
    /\ result = JsFalse

(***************************************************************************)
(* The Can component (can.tsx 160-220).                                    *)
(* A string or array prop is Undefined or Defined(value); requireAuth is   *)
(* "undefined", "true" or "false".                                         *)
(***************************************************************************)
Children == [t |-> "element", v |-> 1]
Fallback == [t |-> "element", v |-> 0]

CanProps(e, p, anyP, allP, anyT, allT, t, r) ==
    [expression |-> e, permission |-> p, anyPermissions |-> anyP,
     allPermissions |-> allP, anyPatterns |-> anyT, allPatterns |-> allT,
     pattern |-> t, requireAuth |-> r]

\* an authentication flag that also counts a custom permissions array
isAuthenticatedOrCustom == (auth.auth /\ auth.user) \/ permissionsArg.defined

\* isAuthenticated: !!auth?.user (use-permissions.tsx 269)
isAuthenticated == auth.auth /\ auth.user

\* requireAuth = true (can.tsx 171): the default fills in for undefined
requireAuth(props) == props.requireAuth # "false"

\* ToBoolean of a string prop, and array && array.length > 0
NonEmpty(prop) == prop.defined /\ prop.v # <<>>

\* the branch of the chain of can.tsx 192-217 that is taken
Criterion(props) ==
    IF NonEmpty(props.expression) THEN "expression"
    ELSE IF NonEmpty(props.permission) THEN "permission"
    ELSE IF NonEmpty(props.anyPermissions) THEN "anyPermissions"
    ELSE IF props.allPermissions.defined THEN "allPermissions"
    ELSE IF NonEmpty(props.anyPatterns) THEN "anyPatterns"
    ELSE IF NonEmpty(props.allPatterns) THEN "allPatterns"
    ELSE IF NonEmpty(props.pattern) THEN "pattern"
    ELSE "none"

\* hasAccess of can.tsx 190-217 under the branch taken
AccessBy(criterion, props, granted) ==
    CASE criterion = "expression"
            -> checkExpression(props.expression.v, granted)
      [] criterion = "permission"
            -> hasPermission(props.permission.v, granted)
      [] criterion = "anyPermissions"
            -> hasAnyPermission(props.anyPermissions.v, granted)
      [] criterion = "allPermissions"
            -> hasAllPermissions(props.allPermissions.v, granted)
      [] criterion = "anyPatterns"
            -> hasAnyPattern(props.anyPatterns.v, granted)
      [] criterion = "allPatterns"
            -> hasAllPatterns(props.allPatterns.v, granted)
      [] criterion = "pattern"
            -> hasPermissionPattern(props.pattern.v, granted)
      [] OTHER -> Bool(~requireAuth(props))

hasAccess(props, granted) == AccessBy(Criterion(props), props, granted)

\* what Can returns: the fallback at the gate of 185-187, else children or
\* fallback by ToBoolean of hasAccess (219); an exception of the hook's
\* function leaves the render
Can(props, granted) ==
    IF requireAuth(props) /\ ~isAuthenticated THEN Fallback
    ELSE Let(hasAccess(props, granted),
             LAMBDA v : IF Abrupt(v) THEN v
                        ELSE IF Truthy(v) THEN Children ELSE Fallback)

\* the patterns the taken branch hands to hasPermissionPattern
CanVisited(props, granted) ==
    CASE Criterion(props) = "anyPatterns"
            -> Visited(props.anyPatterns.v, 1, granted, TRUE)
      [] Criterion(props) = "allPatterns"
            -> Visited(props.allPatterns.v, 1, granted, FALSE)
      [] Criterion(props) = "pattern" -> <<props.pattern.v>>
      [] OTHER -> <<>>

CanTexts(props, granted) ==
    IF requireAuth(props) /\ ~isAuthenticated THEN <<>>
    ELSE CASE Criterion(props) = "expression"
                 -> FunctionTexts("checkExpression", props.expression.v,
                                  granted)
           [] Criterion(props) = "permission"
                 -> FunctionTexts("hasPermission", props.permission.v, granted)
           [] OTHER -> VisitedTexts(CanVisited(props, granted), 1, granted)

CanWarnings(props, granted) ==
    IF requireAuth(props) /\ ~isAuthenticated THEN <<>>
    ELSE CASE Criterion(props) = "expression"
                 -> Warnings("checkExpression", props.expression.v, granted)
           [] Criterion(props) = "permission"
                 -> Warnings("hasPermission", props.permission.v, granted)
           [] OTHER -> VisitedWarnings(CanVisited(props, granted), 1, granted)

\* one render of <Can {...props} permissions={permissionsArg}>
RenderCan(props) ==
    /\ pc = "idle"
    /\ pc' = "returned"
    /\ op' = "Can"
    /\ arg' = props
    /\ result' = Can(props, userPermissions)
    /\ fnText' = CanTexts(props, userPermissions)
    /\ warned' = CanWarnings(props, userPermissions)
    /\ UNCHANGED <<permissionsArg, auth, userPermissions>>

\* the values of a prop: absent, or one of the given values
Optional(values) == {Undefined} \cup {Defined(x) : x \in values}

RequireAuthValues == {"undefined", "true", "false"}

(***************************************************************************)
(* The authentication gate of Can.                                         *)
(***************************************************************************)
GateLists == {<<>>, <<<<"a">>>>}

GateProps ==
    {CanProps(e, p, anyP, allP, anyT, allT, t, r) :
        e \in Optional({<<"a">>}),
        p \in Optional({TrueText, <<"*">>, <<"a">>}),
        anyP \in Optional({<<<<"a">>>>}),
        allP \in Optional({<<>>}),
        anyT \in Optional({<<<<"*">>>>}),
        allT \in Optional({<<<<"*">>>>}),
        t \in Optional({<<"*">>}),
        r \in RequireAuthValues}

InitGate == Rendered(Optional(GateLists), SourceAuth)
NextGate ==
    \/ \E props \in GateProps : RenderCan(props)
    \/ Return
SpecGate == InitGate /\ [][NextGate]_vars

NoAuthUser == ~(auth.auth /\ auth.user)

\* C21: when requireAuth is true or left to its default and there is no
\* auth user, Can renders the fallback whatever the other props and the
\* custom permissions array are; isAuthenticated is the presence of the
\* auth user and nothing else.
C21_AuthenticationGate ==
    /\ isAuthenticated = ~NoAuthUser
    /\ (Returned("Can") /\ arg.requireAuth # "false" /\ NoAuthUser)
          => result = Fallback

\* no auth user, a custom array that holds the permission asked for, and
\* the fallback was rendered
C21_Witness ==
    /\ Returned("Can")
    /\ NoAuthUser
    /\ permissionsArg = Defined(<<<<"a">>>>)
    /\ arg.permission = Defined(<<"a">>)
    /\ arg.requireAuth = "undefined"
    /\ result = Fallback

(***************************************************************************)
(* The criterion of Can that decides.                                      *)
(***************************************************************************)
\* each prop is absent, empty, or holds one name: "a" is granted in one of
\* the lists and "b" in none
CriterionProps ==
    {CanProps(e, p, anyP, allP, anyT, allT, t, r) :
        e \in Optional({<<>>, <<"a">>}),
        p \in Optional({<<>>, <<"b">>}),
        anyP \in Optional({<<>>, <<<<"a">>>>}),
        allP \in Optional({<<>>, <<<<"b">>>>}),
        anyT \in Optional({<<>>, <<<<"a">>>>}),
        allT \in Optional({<<>>, <<<<"b">>>>}),
        t \in Optional({<<>>, <<"a">>}),
        r \in {"true", "false"}}

CriterionAuth == {NoAuth, Auth(TRUE, TRUE, Defined(<<<<"a">>>>))}

InitCriterion == Rendered({Undefined}, CriterionAuth)
NextCriterion ==
    \/ \E props \in CriterionProps : RenderCan(props)
    \/ Return
SpecCriterion == InitCriterion /\ [][NextCriterion]_vars

\* the first prop that was supplied, in the order of the claim
FirstSupplied(props) ==
    IF props.expression.defined THEN "expression"
    ELSE IF props.permission.defined THEN "permission"
    ELSE IF props.anyPermissions.defined THEN "anyPermissions"
    ELSE IF props.allPermissions.defined THEN "allPermissions"
    ELSE IF props.anyPatterns.defined THEN "anyPatterns"
    ELSE IF props.allPatterns.defined THEN "allPatterns"
    ELSE IF props.pattern.defined THEN "pattern"
    ELSE "none"

Passed == ~(arg.requireAuth # "false" /\ NoAuthUser)

\* C22: past the authentication gate, children are rendered exactly when
\* the first supplied prop, in the order expression, permission,
\* anyPermissions, allPermissions, anyPatterns, allPatterns, pattern, is
\* satisfied; the props after it have no influence.
C22_FirstSuppliedDecides ==
    (Returned("Can") /\ Passed)
        => (result = Children)
              = Truthy(AccessBy(FirstSupplied(arg), arg, userPermissions))

(***************************************************************************)
(* The elements of anyPermissions and allPermissions.                      *)
(***************************************************************************)
\* a name, a glob, the literal true and an expression
ElementValues ==
    {<<"a">>, <<"a", ".", "*">>, TrueText, <<"a", " ", "|", "|", " ", "b">>}

ElementArrays == Lists(ElementValues, MaxBulk) \ {<<>>}

ElementProps ==
    {CanProps(Undefined, Undefined, Defined(names), Undefined, Undefined,
              Undefined, Undefined, "undefined") : names \in ElementArrays}
    \cup {CanProps(Undefined, Undefined, Undefined, Defined(names), Undefined,
                   Undefined, Undefined, "undefined") : names \in ElementArrays}

ElementPool == {<<"a">>, <<"a", ".", "b">>}

ElementAuth ==
    {Auth(TRUE, TRUE, Defined(list)) : list \in Lists(ElementPool, MaxGranted)}

InitElement == Rendered({Undefined}, ElementAuth)
NextElement ==
    \/ \E props \in ElementProps : RenderCan(props)
    \/ Return
SpecElement == InitElement /\ [][NextElement]_vars

ElementHolds(element) == hasPermission(element, userPermissions) = JsTrue

\* C23: with anyPermissions deciding, children are rendered exactly when
\* hasPermission is true of some element, and with allPermissions deciding
\* exactly when it is true of every element, the elements being names,
\* patterns, expressions or literals.
C23_ElementsLikePermission ==
    /\ (Returned("Can") /\ arg.anyPermissions.defined)
          => (result = Children)
                = (\E i \in 1..Len(arg.anyPermissions.v) :
                      ElementHolds(arg.anyPermissions.v[i]))
    /\ (Returned("Can") /\ arg.allPermissions.defined)
          => (result = Children)
                = (\A i \in 1..Len(arg.allPermissions.v) :
                      ElementHolds(arg.allPermissions.v[i]))

(***************************************************************************)
(* Empty arrays as the only criterion of Can.                              *)
(***************************************************************************)
EmptyProps ==
    {CanProps(Undefined, Undefined, Defined(<<>>), Undefined, Undefined,
              Undefined, Undefined, r) : r \in RequireAuthValues}
    \cup {CanProps(Undefined, Undefined, Undefined, Defined(<<>>), Undefined,
                   Undefined, Undefined, r) : r \in RequireAuthValues}

InitEmpty == Rendered(SourceArguments, SourceAuth)
NextEmpty ==
    \/ \E props \in EmptyProps : RenderCan(props)
    \/ Return
SpecEmpty == InitEmpty /\ [][NextEmpty]_vars

\* C24: with the empty anyPermissions as the only criterion Can renders
\* the fallback, whatever the auth state and requireAuth are; with the
\* empty allPermissions as the only criterion an authenticated user gets
\* the children.
C24_EmptyArrays ==
    /\ (Returned("Can") /\ arg.anyPermissions.defined) => result = Fallback
    /\ (Returned("Can") /\ arg.allPermissions.defined /\ ~NoAuthUser)
          => result = Children

(***************************************************************************)
(* The operator runs the normaliser leaves.                                *)
(***************************************************************************)
\* the runs of one operator character, from the single operator on
OperatorRuns == {Run(c, n) : c \in {"|", "&"}, n \in 1..MaxRun}

NormalOperands == {<<"a">>, <<"b">>}

\* two operands about a run with and without spaces, and three operands
\* about two runs
NormalExpressions ==
    UNION {{l \o o \o r, l \o Space \o o \o Space \o r} :
              l \in NormalOperands, o \in OperatorRuns, r \in NormalOperands}
    \cup {<<"a">> \o o \o <<"b">> \o q \o <<"a">> :
              o \in OperatorRuns, q \in OperatorRuns}

InitNormal == Constructed(Lists({<<"a">>}, MaxGranted))
NextNormal ==
    \/ \E e \in NormalExpressions : CheckExpression(e)
    \/ \E e \in NormalExpressions : IsValidExpression(e)
    \/ Return
SpecNormal == InitNormal /\ [][NextNormal]_vars

\* the lengths of the maximal runs of | and of & in s from index i on
RECURSIVE RunLengths(_, _)
RunLengths(s, i) ==
    IF i > Len(s) THEN <<>>
    ELSE IF s[i] \in {"|", "&"}
         THEN <<RunOf(s, s[i], i) - i>> \o RunLengths(s, RunOf(s, s[i], i))
         ELSE RunLengths(s, i + 1)

\* the call normalised arg and handed the text to Function
Normalised ==
    (Returned("checkExpression") \/ Returned("isValidExpression"))
    /\ fnText # <<>>

\* C25: in the normalised text every maximal run of | and every maximal
\* run of & has length exactly 2, whatever the runs of the input were.
C25_CanonicalRuns ==
    Normalised
        => \A k \in 1..Len(RunLengths(fnText[1], 1)) :
              RunLengths(fnText[1], 1)[k] = 2

\* the length a run of n has after the lone-operator doubling and the
\* replacement of every three by two
NormalisedRun(n) ==
    IF n <= 2 THEN 2 ELSE 2 * ((n + 1) \div 3) + ((n + 1) % 3)

\* C25 (amended): the normalised text has the runs of the input in the
\* same order; a run of 1 or 2 has become a run of exactly 2, and a run
\* of n >= 3 has become a run of 2 * floor((n + 1) / 3) + (n + 1) mod 3,
\* which is never less than 3.
C25_CanonicalRunsAmended ==
    Normalised
        => /\ Len(RunLengths(fnText[1], 1)) = Len(RunLengths(arg, 1))
           /\ \A k \in 1..Len(RunLengths(arg, 1)) :
                 /\ RunLengths(fnText[1], 1)[k]
                       = NormalisedRun(RunLengths(arg, 1)[k])
                 /\ RunLengths(arg, 1)[k] >= 3
                       => RunLengths(fnText[1], 1)[k] >= 3

\* a single operator was doubled and a run of three stayed a run of three
C25_Witness ==
    /\ Returned("checkExpression")
    /\ arg = <<"a", "|", "b", "&", "&", "&", "a">>
    /\ fnText # <<>>
    /\ RunLengths(fnText[1], 1) = <<2, 3>>

(***************************************************************************)
(* The warning of a failed evaluation.                                     *)
(***************************************************************************)
\* expressions whose evaluation succeeds, and expressions with a dangling
\* operator, adjacent operands, an unmatched parenthesis or a long run,
\* written with single and with double operators
DiagnosticExpressions ==
    {<<"a">>, TrueText, Space \o FalseText,
     <<"a", " ", "|", " ", "b">>, <<"a", "&", "&", "b">>,
     <<"(", "a", "|", "b", ")", "&", "a">>,
     <<"a", " ", "&">>, <<"|", " ", "a">>, <<"a", " ", "|", "|">>,
     <<"a", " ", "b">>, <<"(", "a", " ", "|", " ", "b">>, <<"a", ")">>,
     <<"a", "|", "|", "|", "b">>, <<>>}

DiagnosticPool == {<<"a">>, <<"b">>}

InitDiagnostic == Constructed(Lists(DiagnosticPool, MaxGranted))
NextDiagnostic ==
    \/ \E e \in DiagnosticExpressions : CheckExpression(e)
    \/ \E e \in DiagnosticExpressions : IsValidExpression(e)
    \/ Return
SpecDiagnostic == InitDiagnostic /\ [][NextDiagnostic]_vars

\* the text handed to Function did not compile, or running it threw
Failed == fnText # <<>> /\ JsRun(fnText[1]) = Thrown

\* C26: when the evaluation fails, checkExpression returns false and has
\* warned exactly once, with the expression as it was passed in; when the
\* evaluation succeeds it has not warned; isValidExpression never warns.
C26_WarningOnFailure ==
    /\ (Returned("checkExpression") /\ Failed)
          => (result = JsFalse /\ warned = <<arg>>)
    /\ (Returned("checkExpression") /\ ~Failed) => warned = <<>>
    /\ Returned("isValidExpression") => warned = <<>>

\* a dangling single operator: the text handed to Function has the
\* doubled operator and the warning has the single one
C26_Witness ==
    /\ Returned("checkExpression")
    /\ arg = <<"a", " ", "&">>
    /\ Granted(<<"a">>)
    /\ fnText = <<TrueText \o <<" ", "&", "&">>>>
    /\ warned = <<<<"a", " ", "&">>>>
    /\ result = JsFalse

(***************************************************************************)
(* Calls in any order.                                                     *)
(***************************************************************************)
HistoryTexts ==
    {<<"a">>, <<"a", ".", "*">>, <<"a", " ", "|", " ", "b">>, <<"*">>,
     <<"(", "a", "?">>, <<"a", " ", "&">>}

HistoryArrays == Lists({<<"a">>, <<"b", "*">>, <<"a", "|", "b">>}, MaxBulk)

InitHistory == Rendered(SourceArguments, SourceAuth)
NextHistory ==
    \/ \E t \in HistoryTexts : HasPermission(t)
    \/ \E t \in HistoryTexts : HasPermissionPattern(t)
    \/ \E t \in HistoryTexts : CheckExpression(t)
    \/ \E t \in HistoryTexts : IsValidExpression(t)
    \/ \E t \in HistoryTexts : GetMatchingPermissions(t)
    \/ \E ps \in HistoryArrays : HasAnyPermission(ps)
    \/ \E ps \in HistoryArrays : HasAllPermissions(ps)
    \/ \E ps \in HistoryArrays : HasAnyPattern(ps)
    \/ \E ps \in HistoryArrays : HasAllPatterns(ps)
    \/ Return
SpecHistory == InitHistory /\ [][NextHistory]_vars

\* what the operation returns as the first call after the hook was built
\* with the argument and the page props
FirstCall(operation, input, argument, props) ==
    CASE operation = "hasPermission"
            -> hasPermission(input, GrantedList(argument, props))
      [] operation = "hasPermissionPattern"
            -> hasPermissionPattern(input, GrantedList(argument, props))
      [] operation = "checkExpression"
            -> checkExpression(input, GrantedList(argument, props))
      [] operation = "isValidExpression" -> isValidExpression(input)
      [] operation = "getMatchingPermissions"
            -> getMatchingPermissions(input, GrantedList(argument, props))
      [] operation = "hasAnyPermission"
            -> hasAnyPermission(input, GrantedList(argument, props))
      [] operation = "hasAllPermissions"
            -> hasAllPermissions(input, GrantedList(argument, props))
      [] operation = "hasAnyPattern"
            -> hasAnyPattern(input, GrantedList(argument, props))
      [] operation = "hasAllPatterns"
            -> hasAllPatterns(input, GrantedList(argument, props))

SameAsFirstCall ==
    /\ userPermissions = GrantedList(permissionsArg, auth)
    /\ pc = "returned" => result = FirstCall(op, arg, permissionsArg, auth)

\* C27: no call changes the granted list, the argument or the page props
\* the hook was built with, and after any sequence of calls a call returns
\* what it returns as the first call with the same arguments.
C27_HistoryIndependence ==
    /\ [][UNCHANGED <<permissionsArg, auth, userPermissions>>]_vars
    /\ []SameAsFirstCall

\* getMatchingPermissions has left an entry of the granted list out of its
\* result, and the granted list still has it
C27_Witness ==
    /\ Returned("getMatchingPermissions")
    /\ arg = <<"a">>
    /\ userPermissions = <<<<"b">>, <<"a">>>>
    /\ result = JsArray(<<<<"a">>>>)

(***************************************************************************)
(* An identifier that is a prefix of another identifier.                   *)
(***************************************************************************)
PrefixShort == <<"a">>
PrefixLong == <<"a", ".", "b">>

\* the two identifiers joined by an operator, in both orders, with single
\* and double operators
PrefixExpressions ==
    UNION {{Joined(PrefixShort, o, PrefixLong),
            Joined(PrefixLong, o, PrefixShort)} :
              o \in {OrOr, AndAnd, <<"|">>, <<"&">>}}

InitPrefix == Constructed(Lists({PrefixShort, PrefixLong, <<"b">>}, MaxGranted))
NextPrefix ==
    \/ \E e \in PrefixExpressions : HasPermission(e)
    \/ \E e \in PrefixExpressions : CheckExpression(e)
    \/ Return
SpecPrefix == InitPrefix /\ [][NextPrefix]_vars

\* the combination of the two individual matches that arg asks for
PrefixCombination ==
    IF Includes(arg, "|") THEN Granted(PrefixShort) \/ Granted(PrefixLong)
    ELSE Granted(PrefixShort) /\ Granted(PrefixLong)

\* C28: an expression of two identifiers, one a textual prefix of the
\* other, evaluates to the combination of the two individual matches
\* against the granted list.
C28_WholeIdentifiers ==
    (Returned("hasPermission") \/ Returned("checkExpression"))
        => result = Bool(PrefixCombination)

(***************************************************************************)
(* The validator against the evaluator.                                    *)
(***************************************************************************)
AgreeLeaves == {<<"a">>, <<"a", ".", "*">>, <<"*">>, <<"?">>, TrueText}

\* a leaf, two leaves about an operator, and two malformed expressions
AgreeExpressions ==
    AgreeLeaves
    \cup {Joined(l, o, r) : l \in AgreeLeaves, o \in {OrOr, AndAnd},
                            r \in AgreeLeaves}
    \cup {<<"a", " ", "b">>, <<"(", "a">>}

AgreePool == {<<"a">>, <<"a", ".", "b">>}

InitAgree == Constructed(Lists(AgreePool, MaxGranted))
NextAgree ==
    \/ \E e \in AgreeExpressions : CheckExpression(e)
    \/ \E e \in AgreeExpressions : IsValidExpression(e)
    \/ Return
SpecAgree == InitAgree /\ [][NextAgree]_vars

\* C29: an expression for which checkExpression returns true is one for
\* which isValidExpression returns true, a standalone * or ? leaf included.
C29_GrantedImpliesValid ==
    (Returned("checkExpression") /\ result = JsTrue)
        => isValidExpression(arg) = JsTrue

(***************************************************************************)
(* hasPermissionPattern against getMatchingPermissions.                    *)
(***************************************************************************)
\* operator-free patterns: the universal wildcard bare and padded, the
\* literals, names, globs, and a pattern RegExp rejects
IntrospectionPatterns ==
    {<<"*">>, Space \o <<"*">> \o Space, TrueText, FalseText,
     Space \o TrueText, <<"a">>, <<"a", ".", "*">>, <<"a", "?">>, <<"?">>, <<"*", "b">>,
     <<"(", "a">>}

IntrospectionPool == {<<"a">>, <<"a", ".", "b">>, TrueText}

InitIntrospection == Constructed(Lists(IntrospectionPool, MaxGranted))
NextIntrospection ==
    \/ \E p \in IntrospectionPatterns : HasPermissionPattern(p)
    \/ \E p \in IntrospectionPatterns : GetMatchingPermissions(p)
    \/ Return
SpecIntrospection == InitIntrospection /\ [][NextIntrospection]_vars

SomeMatch(value) == value.t = "array" /\ value.v # <<>>

\* the two functions agree on the pattern of the call that returned
Agreeing ==
    /\ Returned("hasPermissionPattern")
          => (result = JsTrue)
                = SomeMatch(getMatchingPermissions(arg, userPermissions))
    /\ Returned("getMatchingPermissions")
          => SomeMatch(result)
                = (hasPermissionPattern(arg, userPermissions) = JsTrue)

ShortCut(pattern) == Trim(pattern) \in {TrueText, FalseText, <<"*">>}

====
